---- MODULE Spec2Model ----
(***************************************************************************)
(* Model of the app-build pipeline: configuration resolution               *)
(* (config/parser.ts, config/schema.ts, config/defaults.ts), the           *)
(* fingerprint cache (fingerprint/cache.ts) and the orchestrator's run()   *)
(* (index.ts).                                                             *)
(*                                                                         *)
(* Optional string values use the sentinel Undefined; optional objects use *)
(* the sentinel record NoObj.                                              *)
(***************************************************************************)
EXTENDS Integers, Sequences, FiniteSets, TLC

VARIABLES
    pc,              \* position inside run()
    file,            \* the config file on disk
    inputs,          \* ActionInputs of the current run
    rawConfig,       \* outcome of parseConfigFile
    config,          \* outcome of mergeActionInputs (ResolvedConfig)
    fingerprintHash, \* run(): let fingerprintHash
    skipNativeBuild, \* run(): let skipNativeBuild
    buildMode,       \* last value of the build-mode output
    failedAt,        \* step whose error reached run()'s catch ("" if none)
    obs,             \* what the current run has done so far
    bumpArgs,        \* arguments handed to bumpVersion
    store,           \* keys present in the shared cache store
    completedNative, \* <<platform, hash>> of completed native runs
    profileLookup,   \* mergeActionInputs: outcome of getProfileConfig
    project,         \* the files of projectDir the version bump works on
    bumpCall,        \* the last bumpVersion call and its outcome
    compared,        \* two versions and the build numbers they encode to
    fingerprintCall, \* the tool's stdout and the outcome of computeFingerprint
    depCache,        \* restoreCaches / saveCaches of one process
    jobs             \* two jobs that share the cache store

vars == <<pc, file, inputs, rawConfig, config, fingerprintHash,
          skipNativeBuild, buildMode, failedAt, obs, bumpArgs, store,
          completedNative, profileLookup, project, bumpCall, compared,
          fingerprintCall, depCache, jobs>>

----------------------------------------------------------------------------
\* Bounds of the model

MaxProfiles == 2
MaxHashes == 2

----------------------------------------------------------------------------
\* Values

Undefined == "<undefined>"
NoObj == [undefined |-> TRUE]

Platforms == {"ios", "android"}

ProfileNameList == <<"production", "staging", "preview", "development">>
ProfileNames == {ProfileNameList[i] : i \in 1..MaxProfiles}

\* JavaScript truthiness of an optional string
Truthy(s) == s # Undefined /\ s # ""

\* a || b and a ?? b on optional strings
OrElse(a, b) == IF Truthy(a) THEN a ELSE b
Coalesce(a, b) == IF a # Undefined THEN a ELSE b

----------------------------------------------------------------------------
\* config/defaults.ts

DEFAULT_PROFILE == "production"
DEFAULT_CONFIG_PATH == "./app-build.json"
DEFAULT_IOS_EXPORT_METHOD == "app-store"
DEFAULT_IOS_BUILD_CONFIGURATION == "Release"
DEFAULT_ANDROID_BUILD_TYPE == "release"
DEFAULT_ANDROID_AAB == TRUE
DEFAULT_VERSION_SOURCE == "app.json"

----------------------------------------------------------------------------
\* config/schema.ts

ExportMethods == {"development", "ad-hoc", "app-store", "enterprise"}
BuildTypes == {"debug", "release"}
VersionStrategies == {"app-json", "git-tag", "git-commit-count", "timestamp"}

\* IosBuildConfigSchema: issues of an ios section at path p
IosBuildConfigSchema(p, ios) ==
    IF ios.exportMethod \in ExportMethods THEN {}
    ELSE {p \o ".exportMethod"}

\* AndroidBuildConfigSchema: issues of an android section at path p
AndroidBuildConfigSchema(p, android) ==
    IF android.buildType \in BuildTypes THEN {} ELSE {p \o ".buildType"}

\* BuildProfileSchema: both platforms are optional, nothing else is checked
BuildProfileSchema(p, profile) ==
    (IF profile.ios = NoObj THEN {}
     ELSE IosBuildConfigSchema(p \o ".ios", profile.ios))
    \cup
    (IF profile.android = NoObj THEN {}
     ELSE AndroidBuildConfigSchema(p \o ".android", profile.android))

\* VersionConfigSchema
VersionConfigSchema(p, version) ==
    IF version.strategy = Undefined \/ version.strategy \in VersionStrategies
    THEN {} ELSE {p \o ".strategy"}

\* AppBuildConfigSchema.safeParse: the set of violated field paths
AppBuildConfigSchema(json) ==
    (IF json.build = NoObj THEN {"build"}
     ELSE UNION {BuildProfileSchema("build." \o n, json.build[n]) :
                    n \in DOMAIN json.build})
    \cup
    (IF json.version = NoObj THEN {}
     ELSE VersionConfigSchema("version", json.version))

----------------------------------------------------------------------------
\* config/parser.ts

EmptyConfig == [build |-> NoObj, version |-> NoObj]

Returned(v) == [threw |-> FALSE, value |-> v]
Thrown(e) == [threw |-> TRUE, error |-> e]

\* result.error.issues of AppBuildConfigSchema.safeParse(json), each issue as
\* its path joined by '.', '(root)' for the empty path
SafeParseIssues(f) ==
    IF ~f.rootIsObject THEN {"(root)"} ELSE AppBuildConfigSchema(f.json)

\* variant: only one issue is put into the message
parseConfigFile_firstIssueOnly(f) ==
    IF ~f.exists THEN Returned(EmptyConfig)
    ELSE IF ~f.readable
    THEN Thrown([kind |-> "Failed to read config file", file |-> f.path,
                 paths |-> {}])
    ELSE IF ~f.wellFormed
    THEN Thrown([kind |-> "invalid JSON", file |-> f.path, paths |-> {}])
    ELSE IF SafeParseIssues(f) # {}
    THEN Thrown([kind |-> "Invalid config", file |-> f.path,
                 paths |-> {CHOOSE i \in SafeParseIssues(f) : TRUE}])
    ELSE Returned(f.json)

\* parseConfigFile(configPath)
parseConfigFile(f) ==
    IF ~f.exists THEN Returned(EmptyConfig)
    ELSE IF ~f.readable
    THEN Thrown([kind |-> "Failed to read config file", file |-> f.path,
                 paths |-> {}])
    ELSE IF ~f.wellFormed
    THEN Thrown([kind |-> "invalid JSON", file |-> f.path, paths |-> {}])
    ELSE IF SafeParseIssues(f) # {}
    THEN Thrown([kind |-> "Invalid config", file |-> f.path,
                 paths |-> SafeParseIssues(f)])
    ELSE Returned(f.json)

\* names that every plain object answers through Object.prototype
InheritedPropertyNames == {"constructor", "toString"}

\* what such an inherited member is to getProfileConfig: a truthy value with
\* neither an ios nor an android property
InheritedMember == [ios |-> NoObj, android |-> NoObj]

\* config.build[profileName] on the plain object the parser returns
BuildMember(build, profileName) ==
    IF profileName \in DOMAIN build THEN build[profileName]
    ELSE IF profileName \in InheritedPropertyNames THEN InheritedMember
    ELSE NoObj

ConfiguredPlatforms(profile) ==
    {x \in Platforms : profile[x] # NoObj}

\* [profile.ios ? 'ios' : null, profile.android ? 'android' : null]
\*   .filter(Boolean).join(', ') || 'none'
ConfiguredText(profile) ==
    OrElse(IF ConfiguredPlatforms(profile) = {"ios", "android"}
           THEN "ios, android"
           ELSE IF ConfiguredPlatforms(profile) = {"ios"} THEN "ios"
           ELSE IF ConfiguredPlatforms(profile) = {"android"} THEN "android"
           ELSE "",
           "none")

\* variant: no early return for the empty config
getProfileConfig_noEmptyCheck(cfg, profileName, platform) ==
    IF BuildMember(cfg.build, profileName) = NoObj
    THEN Thrown([kind |-> "profile not found", profile |-> profileName,
                 available |-> DOMAIN cfg.build])
    ELSE IF BuildMember(cfg.build, profileName)[platform] = NoObj
    THEN Thrown([kind |-> "platform not configured",
                 profile |-> profileName, platform |-> platform,
                 configured |->
                   ConfiguredText(BuildMember(cfg.build, profileName))])
    ELSE Returned(BuildMember(cfg.build, profileName)[platform])

\* getProfileConfig(config, profileName, platform)
getProfileConfig(cfg, profileName, platform) ==
    IF cfg.build = NoObj THEN Returned(NoObj)
    ELSE IF BuildMember(cfg.build, profileName) = NoObj
    THEN Thrown([kind |-> "profile not found", profile |-> profileName,
                 available |-> DOMAIN cfg.build])
    ELSE IF BuildMember(cfg.build, profileName)[platform] = NoObj
    THEN Thrown([kind |-> "platform not configured",
                 profile |-> profileName, platform |-> platform,
                 configured |->
                   ConfiguredText(BuildMember(cfg.build, profileName))])
    ELSE Returned(BuildMember(cfg.build, profileName)[platform])

\* resolved.versionStrategy / resolved.versionGitTagPattern
ResolvedVersionStrategy(cfg, in) == in.versionStrategy
ResolvedVersionGitTagPattern(cfg, in) == in.versionGitTagPattern

\* resolved.versionConfig
ResolvedVersionConfig(cfg) ==
    IF cfg.version = NoObj THEN NoObj
    ELSE [cfg.version EXCEPT
            !.source = Coalesce(cfg.version.source, DEFAULT_VERSION_SOURCE)]

\* variant: the scheme / buildConfiguration inputs are not applied
ResolvedIos_fileWins(platformConfig, in) ==
    IF platformConfig # NoObj THEN platformConfig
    ELSE [scheme |-> Undefined,
          buildConfiguration |-> DEFAULT_IOS_BUILD_CONFIGURATION,
          exportMethod |-> DEFAULT_IOS_EXPORT_METHOD]

\* resolved.ios for platform ios
ResolvedIos(platformConfig, in) ==
    LET base == IF platformConfig # NoObj THEN platformConfig
                ELSE [scheme |-> Undefined,
                      buildConfiguration |-> DEFAULT_IOS_BUILD_CONFIGURATION,
                      exportMethod |-> DEFAULT_IOS_EXPORT_METHOD]
    IN [base EXCEPT
          !.scheme = OrElse(in.iosScheme, base.scheme),
          !.buildConfiguration =
              OrElse(in.iosBuildConfiguration, base.buildConfiguration)]

\* resolved.android for platform android
ResolvedAndroid(platformConfig) ==
    IF platformConfig # NoObj THEN platformConfig
    ELSE [buildType |-> DEFAULT_ANDROID_BUILD_TYPE,
          aab |-> DEFAULT_ANDROID_AAB]

\* variant: the android section is filled whatever the platform
PlatformSections_both(platform, platformConfig, in) ==
    [ios |-> IF platform = "ios" THEN ResolvedIos(platformConfig, in)
             ELSE NoObj,
     android |-> ResolvedAndroid(platformConfig)]

\* the if (platform === 'ios') ... else ... that fills resolved.ios/android
PlatformSections(platform, platformConfig, in) ==
    [ios |-> IF platform = "ios" THEN ResolvedIos(platformConfig, in)
             ELSE NoObj,
     android |-> IF platform = "ios" THEN NoObj
                 ELSE ResolvedAndroid(platformConfig)]

\* mergeActionInputs(config, inputs)
mergeActionInputs(cfg, in) ==
    LET profileName == OrElse(in.profile, DEFAULT_PROFILE)
        platformConfig == getProfileConfig(cfg, profileName, in.platform)
    IN IF platformConfig.threw THEN platformConfig
       ELSE Returned(
         [platform |-> in.platform,
          profile |-> profileName,
          submit |-> in.submit,
          ota |-> in.ota,
          versionBump |-> in.versionBump,
          cache |-> in.cache,
          fingerprint |-> in.fingerprint,
          versionStrategy |-> ResolvedVersionStrategy(cfg, in),
          versionGitTagPattern |-> ResolvedVersionGitTagPattern(cfg, in),
          versionConfig |-> ResolvedVersionConfig(cfg),
          ios |-> PlatformSections(in.platform, platformConfig.value,
                                   in).ios,
          android |-> PlatformSections(in.platform, platformConfig.value,
                                       in).android])

----------------------------------------------------------------------------
\* version/bump.ts: defaulting at the head of bumpVersion / bumpFromGitTag

EffectiveStrategy(strategy) == Coalesce(strategy, "app-json")
EffectivePattern(gitTagPattern) == Coalesce(gitTagPattern, "v*")

\* variant: the build pipeline goes on without calling bumpVersion
BumpVersionCall_skipped(cfg) == NoObj

\* index.ts: the bumpVersion(...) call of the build pipelines
BumpVersionCall(cfg) ==
    [platform |-> cfg.platform,
     source |-> IF cfg.versionConfig = NoObj THEN Undefined
                ELSE cfg.versionConfig.source,
     strategy |-> cfg.versionStrategy,
     gitTagPattern |-> cfg.versionGitTagPattern,
     effectiveStrategy |-> EffectiveStrategy(cfg.versionStrategy),
     effectivePattern |-> EffectivePattern(cfg.versionGitTagPattern)]

----------------------------------------------------------------------------
\* JSON values and the JavaScript conversions that version/bump.ts and
\* fingerprint/compute.ts apply to them.  A JSON value is a record tagged with its type; a string is the
\* sequence of its characters, so that String(n) and Number(s) are computed.

JUndefined == [t |-> "undefined"]
JNull == [t |-> "null"]
JTrue == [t |-> "boolean", b |-> TRUE]
JNum(n) == [t |-> "number", n |-> n]
JStr(s) == [t |-> "string", s |-> s]
JArr(a) == [t |-> "array", a |-> a]
JObj(o) == [t |-> "object", o |-> o]
EmptyObject == JObj(<<>>)

\* obj[key]
Get(obj, key) ==
    IF obj.t = "object" /\ key \in DOMAIN obj.o THEN obj.o[key]
    ELSE JUndefined

\* obj[key] = value
Put(obj, key, value) ==
    JObj([k \in DOMAIN obj.o \cup {key} |->
            IF k = key THEN value ELSE obj.o[k]])

DecimalDigits == <<"0", "1", "2", "3", "4", "5", "6", "7", "8", "9">>
IsDigit(c) == \E i \in DOMAIN DecimalDigits : DecimalDigits[i] = c
DigitValue(c) == (CHOOSE i \in DOMAIN DecimalDigits : DecimalDigits[i] = c) - 1

\* String(n) and n.toString() of a non-negative integer
RECURSIVE String(_)
String(n) ==
    IF n < 10 THEN <<DecimalDigits[n + 1]>>
    ELSE String(n \div 10) \o <<DecimalDigits[(n % 10) + 1]>>

\* the decimal value of a sequence of digits
RECURSIVE DecimalValue(_)
DecimalValue(s) ==
    IF s = <<>> THEN 0
    ELSE 10 * DecimalValue(SubSeq(s, 1, Len(s) - 1)) + DigitValue(s[Len(s)])

NaN == [nan |-> TRUE]
Finite(n) == [nan |-> FALSE, n |-> n]

\* Number(raw): a number is itself, true is 1, null and the empty string are
\* 0, a string of digits is its decimal value, any other string is NaN
Number(raw) ==
    CASE raw.t = "number" -> Finite(raw.n)
      [] raw.t = "boolean" -> Finite(IF raw.b THEN 1 ELSE 0)
      [] raw.t = "null" -> Finite(0)
      [] raw.t = "string" ->
           IF \A i \in DOMAIN raw.s : IsDigit(raw.s[i])
           THEN Finite(DecimalValue(raw.s)) ELSE NaN
      [] OTHER -> NaN

\* `${raw}` of a scalar
TemplateText(raw) ==
    CASE raw.t = "number" -> String(raw.n)
      [] raw.t = "string" -> raw.s
      [] raw.t = "boolean" -> IF raw.b THEN <<"t", "r", "u", "e">>
                              ELSE <<"f", "a", "l", "s", "e">>
      [] raw.t = "null" -> <<"n", "u", "l", "l">>
      [] OTHER -> <<>>

\* JSON.parse(JSON.stringify(json)): keys whose value is undefined are not
\* written
RECURSIVE WrittenJson(_)
WrittenJson(v) ==
    IF v.t # "object" THEN v
    ELSE JObj([k \in {x \in DOMAIN v.o : v.o[x].t # "undefined"} |->
                 WrittenJson(v.o[k])])

Whitespace == {" ", "\n"}

\* stdout.trim()
RECURSIVE Trim(_)
Trim(s) ==
    IF s = <<>> THEN s
    ELSE IF s[1] \in Whitespace THEN Trim(Tail(s))
    ELSE IF s[Len(s)] \in Whitespace THEN Trim(SubSeq(s, 1, Len(s) - 1))
    ELSE s

----------------------------------------------------------------------------
\* fingerprint/compute.ts and fingerprint/cache.ts

\* the string of a sequence of characters
RECURSIVE Text(_)
Text(chars) ==
    IF chars = <<>> THEN "" ELSE chars[1] \o Text(Tail(chars))

HashChars ==
    <<<<"a", "b", "c", "1", "2", "3">>, <<"x", "y", "z", "7", "8", "9">>,
      <<"0", "f", "3", "e", "9", "a">>, <<"7", "7", "a", "a", "1", "0">>>>
HashList == [i \in DOMAIN HashChars |-> Text(HashChars[i])]
Hashes == {HashList[i] : i \in 1..MaxHashes}

\* what npx @expo/fingerprint fingerprint:generate may print as JSON: an
\* object with the keys hash and sources, either of them of any type or
\* missing, or a JSON value that is no object
ToolHashes ==
    {JUndefined, JNull, JNum(7), JStr(<<>>)}
    \cup {JStr(HashChars[i]) : i \in 1..MaxHashes}
ToolSources ==
    {JUndefined, JArr(<<>>), JArr(<<JNum(1)>>), JArr(<<JNum(1), JNum(2)>>),
     JStr(<<"a", "l", "l">>), JNum(3)}
ToolDocuments ==
    {WrittenJson(JObj([hash |-> h, sources |-> c])) :
       h \in ToolHashes, c \in ToolSources}
    \cup {JNull, JTrue, JNum(42), JStr(<<"o", "k">>), JArr(<<>>)}

\* the keys of a printed object in the order they are printed, each with its
\* characters
PrintedKeys ==
    <<[key |-> "hash", chars |-> <<"h", "a", "s", "h">>],
      [key |-> "sources", chars |-> <<"s", "o", "u", "r", "c", "e", "s">>]>>

\* JSON.stringify(v), as the tool prints its result
RECURSIVE Stringify(_)
RECURSIVE StringifyItems(_)
RECURSIVE StringifyMembers(_, _, _)
StringifyItems(a) ==
    IF a = <<>> THEN <<>>
    ELSE Stringify(a[1])
           \o (IF Len(a) = 1 THEN <<>> ELSE <<",">> \o StringifyItems(Tail(a)))
StringifyMembers(o, i, first) ==
    IF i > Len(PrintedKeys) THEN <<>>
    ELSE IF PrintedKeys[i].key \notin DOMAIN o
    THEN StringifyMembers(o, i + 1, first)
    ELSE (IF first THEN <<>> ELSE <<",">>)
           \o <<"\"">> \o PrintedKeys[i].chars \o <<"\"", ":">>
           \o Stringify(o[PrintedKeys[i].key])
           \o StringifyMembers(o, i + 1, FALSE)
Stringify(v) ==
    CASE v.t = "null" -> <<"n", "u", "l", "l">>
      [] v.t = "boolean" -> IF v.b THEN <<"t", "r", "u", "e">>
                            ELSE <<"f", "a", "l", "s", "e">>
      [] v.t = "number" -> String(v.n)
      [] v.t = "string" -> <<"\"">> \o v.s \o <<"\"">>
      [] v.t = "array" -> <<"[">> \o StringifyItems(v.a) \o <<"]">>
      [] v.t = "object" -> <<"{">> \o StringifyMembers(v.o, 1, TRUE) \o <<"}">>

\* the text of each document
PrintedDocuments == [d \in ToolDocuments |-> Stringify(d)]

\* JSON.parse(text): the document that is printed as text, a SyntaxError when
\* there is none
JSONParse(text) ==
    IF \E d \in ToolDocuments : PrintedDocuments[d] = text
    THEN Returned(CHOOSE d \in ToolDocuments : PrintedDocuments[d] = text)
    ELSE Thrown([kind |-> "SyntaxError"])

\* text.slice(0, end)
Slice(text, end) ==
    SubSeq(text, 1, IF Len(text) < end THEN Len(text) ELSE end)

\* outputs that are no JSON: nothing, an npm error, a cut-off document and a
\* text of more than 200 characters
BrokenOutputs ==
    {<<>>, <<"n", "p", "m", " ", "E", "R", "R", "!", "\n">>,
     <<"{", "\"", "h", "a", "s", "h", "\"", ":">>,
     [i \in 1..205 |-> IF i % 10 = 0 THEN " " ELSE "x"]}

\* a run of the fingerprint tool: the document it set out to print (none
\* when it failed before) and its stdout, a document on a line of its own,
\* or after a leading blank, or no JSON
ToolRun(document, stdout) == [document |-> document, stdout |-> stdout]
ToolRuns ==
    {ToolRun(d, PrintedDocuments[d] \o <<"\n">>) : d \in ToolDocuments}
    \cup {ToolRun(d, <<" ">> \o PrintedDocuments[d]) : d \in ToolDocuments}
    \cup {ToolRun(NoObj, out) : out \in BrokenOutputs}
ToolOutputs == {r.stdout : r \in ToolRuns}

\* the outputs the runs of the pipeline are checked with: no JSON, a
\* document without hash, and a proper document for each hash
PipelineToolOutputs ==
    {out \in ToolOutputs :
       \/ out = <<>>
       \/ out = <<"{", "}", "\n">>
       \/ \E i \in 1..MaxHashes :
            out = Stringify(JObj([hash |-> JStr(HashChars[i]),
                                  sources |-> JArr(<<JNum(1)>>)]))
                    \o <<"\n">>}

\* computeFingerprint, once stdout.trim() is parsed
FingerprintOf(parsed) ==
    IF parsed.t = "null" THEN Thrown([kind |-> "TypeError"])
    ELSE IF ~(Get(parsed, "hash").t = "string"
              /\ Get(parsed, "hash").s # <<>>)
    THEN Thrown([kind |-> "invalid result"])
    ELSE Returned([hash |-> Text(Get(parsed, "hash").s),
                   sourceCount |->
                     IF Get(parsed, "sources").t = "array"
                     THEN Len(Get(parsed, "sources").a) ELSE 0])

\* computeFingerprint(platform, projectDir) on the tool's stdout
computeFingerprint(stdout) ==
    IF JSONParse(Trim(stdout)).threw
    THEN Thrown([kind |-> "Failed to parse", got |-> Slice(stdout, 200)])
    ELSE FingerprintOf(JSONParse(Trim(stdout)).value)

\* variant: the key leaves the platform out
cacheKey_noPlatform(platform, hash) == "native-build-" \o hash

\* cacheKey(platform, hash)
cacheKey(platform, hash) == "native-build-" \o platform \o "-" \o hash

\* cache.restoreCache(paths, key) of the cache store
restoreCache(st, key, available) ==
    IF ~available THEN [rejected |-> TRUE, hit |-> Undefined]
    ELSE [rejected |-> FALSE, hit |-> IF key \in st THEN key ELSE Undefined]

\* cache.saveCache(paths, key) of the cache store: keys are immutable
saveCache(st, key, available) ==
    IF ~available \/ key \in st THEN [rejected |-> TRUE, store |-> st]
    ELSE [rejected |-> FALSE, store |-> st \cup {key}]

\* variant: a store error is read as a hit
restoreFingerprintCache_errorIsHit(st, platform, hash, available) ==
    LET hit == restoreCache(st, cacheKey(platform, hash), available)
    IN IF hit.rejected THEN Returned(TRUE)
       ELSE Returned(Truthy(hit.hit))

\* variant: no try/catch around cache.restoreCache
restoreFingerprintCache_noCatch(st, platform, hash, available) ==
    LET hit == restoreCache(st, cacheKey(platform, hash), available)
    IN IF hit.rejected THEN Thrown([kind |-> "cache"])
       ELSE Returned(Truthy(hit.hit))

\* restoreFingerprintCache(platform, hash)
restoreFingerprintCache(st, platform, hash, available) ==
    LET hit == restoreCache(st, cacheKey(platform, hash), available)
    IN IF hit.rejected THEN Returned(FALSE)
       ELSE Returned(Truthy(hit.hit))

\* variant: no try/catch around cache.saveCache
saveFingerprintCache_noCatch(st, platform, hash, available) ==
    LET r == saveCache(st, cacheKey(platform, hash), available)
    IN [threw |-> r.rejected, store |-> r.store]

\* saveFingerprintCache(platform, hash): the store after the call
saveFingerprintCache(st, platform, hash, available) ==
    LET r == saveCache(st, cacheKey(platform, hash), available)
    IN [threw |-> FALSE, store |-> r.store]

----------------------------------------------------------------------------
\* index.ts: run()

\* if (config.fingerprint && !config.ota)
NeedsFingerprintCheck(cfg) == cfg.fingerprint /\ ~cfg.ota

\* variant: the explicit ota flag is not consulted
TakesOtaRoute_skipOnly(cfg, skip) == skip

\* if (config.ota || skipNativeBuild)
TakesOtaRoute(cfg, skip) == cfg.ota \/ skip

\* build-mode written in the native branch
NativeBuildMode(cfg) == IF cfg.fingerprint THEN "native" ELSE "full"

\* an awaited step: continue on success, run()'s catch on a throw
StepNext(ok, next) == IF ok THEN next ELSE "failed"

\* variant: a pipeline error is swallowed and the saves still run
AfterNativePipeline_swallowed(ok) == "savecaches"

\* await run*BuildPipeline(config, projectDir): an error skips the saves
AfterNativePipeline(ok) == IF ok THEN "savecaches" ELSE "failed"

\* if (fingerprintHash) before saveFingerprintCache
SavesFingerprint(hash) == Truthy(hash)

NoObs == [fingerprintComputed |-> FALSE, cached |-> "none",
          restoreRejected |-> FALSE, saveAvailable |-> FALSE, ranOta |-> FALSE, ranNative |-> FALSE,
          nativeReturned |-> FALSE, nativeThrew |-> FALSE,
          fpSaveInvoked |-> FALSE, saveRejected |-> FALSE]

BoolStr(b) == IF b THEN "true" ELSE "false"

\* const rawConfig = await parseConfigFile(configPath)
ParseConfigFile ==
    /\ pc = "start"
    /\ rawConfig' = parseConfigFile(file)
    /\ pc' = StepNext(~rawConfig'.threw, "parsed")
    /\ failedAt' = IF rawConfig'.threw THEN "parseConfigFile" ELSE failedAt
    /\ UNCHANGED <<profileLookup, project, bumpCall, compared,
                   fingerprintCall, depCache, jobs>>
    /\ UNCHANGED <<file, inputs, config, fingerprintHash, skipNativeBuild,
                   buildMode, obs, bumpArgs, store, completedNative>>

\* const config = mergeActionInputs(rawConfig, inputs)
MergeActionInputs ==
    /\ pc = "parsed"
    /\ LET r == mergeActionInputs(rawConfig.value, inputs)
       IN /\ config' = IF r.threw THEN NoObj ELSE r.value
          /\ pc' = StepNext(~r.threw, "merged")
          /\ failedAt' = IF r.threw THEN "mergeActionInputs" ELSE failedAt
    /\ profileLookup' =
         getProfileConfig(rawConfig.value, OrElse(inputs.profile,
                                                  DEFAULT_PROFILE),
                          inputs.platform)
    /\ UNCHANGED <<project, bumpCall, compared, fingerprintCall, depCache,
                   jobs>>
    /\ UNCHANGED <<file, inputs, rawConfig, fingerprintHash, skipNativeBuild,
                   buildMode, obs, bumpArgs, store, completedNative>>

\* fingerprint check, first half: computeFingerprint
FingerprintCompute ==
    /\ pc = "merged"
    /\ NeedsFingerprintCheck(config)
    /\ \E out \in PipelineToolOutputs :
         LET fp == computeFingerprint(out)
         IN /\ pc' = StepNext(~fp.threw, "restore")
            /\ failedAt' = IF fp.threw THEN "computeFingerprint" ELSE failedAt
            /\ fingerprintHash' = IF fp.threw THEN fingerprintHash
                                  ELSE fp.value.hash
            /\ obs' = [obs EXCEPT !.fingerprintComputed = ~fp.threw]
    /\ UNCHANGED <<profileLookup, project, bumpCall, compared,
                   fingerprintCall, depCache, jobs>>
    /\ UNCHANGED <<file, inputs, rawConfig, config, skipNativeBuild,
                   buildMode, bumpArgs, store, completedNative>>

\* fingerprint check, second half: restoreFingerprintCache and its branches
FingerprintRestore ==
    /\ pc = "restore"
    /\ \E available \in BOOLEAN :
         LET cached == restoreFingerprintCache(store, config.platform,
                                               fingerprintHash, available)
         IN /\ pc' = StepNext(~cached.threw, "route")
            /\ failedAt' = IF cached.threw THEN "restoreFingerprintCache"
                           ELSE failedAt
            /\ skipNativeBuild' = (~cached.threw /\ cached.value)
            /\ buildMode' = IF cached.threw THEN buildMode
                            ELSE IF cached.value THEN "ota" ELSE "native"
            /\ obs' = [obs EXCEPT
                         !.restoreRejected = ~available,
                         !.cached = IF cached.threw THEN "none"
                                    ELSE BoolStr(cached.value)]
    /\ UNCHANGED <<profileLookup, project, bumpCall, compared,
                   fingerprintCall, depCache, jobs>>
    /\ UNCHANGED <<file, inputs, rawConfig, config, fingerprintHash,
                   bumpArgs, store, completedNative>>

\* if (config.ota || skipNativeBuild) ... else ...
RouteDecision ==
    /\ pc \in {"merged", "route"}
    /\ pc = IF NeedsFingerprintCheck(config) THEN "route" ELSE "merged"
    /\ IF TakesOtaRoute(config, skipNativeBuild)
       THEN /\ pc' = "ota"
            /\ obs' = [obs EXCEPT !.ranOta = TRUE]
            /\ UNCHANGED buildMode
       ELSE /\ pc' = "setup"
            /\ obs' = [obs EXCEPT !.ranNative = TRUE]
            /\ buildMode' = NativeBuildMode(config)
    /\ UNCHANGED <<profileLookup, project, bumpCall, compared,
                   fingerprintCall, depCache, jobs>>
    /\ UNCHANGED <<file, inputs, rawConfig, config, fingerprintHash,
                   skipNativeBuild, failedAt, bumpArgs, store,
                   completedNative>>

\* await runOtaPipeline(config, projectDir)
RunOtaPipeline ==
    /\ pc = "ota"
    /\ \E ok \in BOOLEAN :
         /\ pc' = StepNext(ok, "done")
         /\ failedAt' = IF ok THEN failedAt ELSE "runOtaPipeline"
    /\ UNCHANGED <<profileLookup, project, bumpCall, compared,
                   fingerprintCall, depCache, jobs>>
    /\ UNCHANGED <<file, inputs, rawConfig, config, fingerprintHash,
                   skipNativeBuild, buildMode, obs, bumpArgs, store,
                   completedNative>>

\* await runSetup(config, projectDir)
RunSetup ==
    /\ pc = "setup"
    /\ \E ok \in BOOLEAN :
         /\ pc' = StepNext(ok, "bump")
         /\ failedAt' = IF ok THEN failedAt ELSE "runSetup"
         /\ obs' = [obs EXCEPT !.nativeThrew = ~ok]
    /\ UNCHANGED <<profileLookup, project, bumpCall, compared,
                   fingerprintCall, depCache, jobs>>
    /\ UNCHANGED <<file, inputs, rawConfig, config, fingerprintHash,
                   skipNativeBuild, buildMode, bumpArgs, store,
                   completedNative>>

\* build pipeline: platform section check and the version bump step
NativeVersionBump ==
    /\ pc = "bump"
    /\ \E bumped \in BOOLEAN :
         LET ok == config[config.platform] # NoObj
                   /\ (config.versionBump => bumped)
         IN /\ pc' = StepNext(ok, "build")
            /\ failedAt' = IF ok THEN failedAt ELSE "bumpVersion"
            /\ obs' = [obs EXCEPT !.nativeThrew = ~ok]
            /\ bumpArgs' = IF config[config.platform] # NoObj
                              /\ config.versionBump
                           THEN BumpVersionCall(config) ELSE bumpArgs
    /\ UNCHANGED <<profileLookup, project, bumpCall, compared,
                   fingerprintCall, depCache, jobs>>
    /\ UNCHANGED <<file, inputs, rawConfig, config, fingerprintHash,
                   skipNativeBuild, buildMode, store, completedNative>>

\* build pipeline: prebuild, credentials and the native build
NativeBuild ==
    /\ pc = "build"
    /\ \E ok \in BOOLEAN :
         /\ pc' = StepNext(ok, "submit")
         /\ failedAt' = IF ok THEN failedAt ELSE "build"
         /\ obs' = [obs EXCEPT !.nativeThrew = ~ok]
    /\ UNCHANGED <<profileLookup, project, bumpCall, compared,
                   fingerprintCall, depCache, jobs>>
    /\ UNCHANGED <<file, inputs, rawConfig, config, fingerprintHash,
                   skipNativeBuild, buildMode, bumpArgs, store,
                   completedNative>>

\* build pipeline: the submit step, then the pipeline returns
NativeSubmit ==
    /\ pc = "submit"
    /\ \E submitted \in BOOLEAN :
         LET ok == config.submit => submitted
         IN /\ pc' = AfterNativePipeline(ok)
            /\ failedAt' = IF ok THEN failedAt ELSE "submit"
            /\ obs' = [obs EXCEPT !.nativeThrew = ~ok, !.nativeReturned = ok]
    /\ UNCHANGED <<profileLookup, project, bumpCall, compared,
                   fingerprintCall, depCache, jobs>>
    /\ UNCHANGED <<file, inputs, rawConfig, config, fingerprintHash,
                   skipNativeBuild, buildMode, bumpArgs, store,
                   completedNative>>

\* if (config.cache) await saveCaches(...): every rejection is settled
SaveCaches ==
    /\ pc = "savecaches"
    /\ pc' = "savefp"
    /\ UNCHANGED <<profileLookup, project, bumpCall, compared,
                   fingerprintCall, depCache, jobs>>
    /\ UNCHANGED <<file, inputs, rawConfig, config, fingerprintHash,
                   skipNativeBuild, buildMode, failedAt, obs, bumpArgs,
                   store, completedNative>>

\* if (fingerprintHash) await saveFingerprintCache(...); pipeline complete
SaveFingerprintCache ==
    /\ pc = "savefp"
    /\ \E available \in BOOLEAN :
         IF SavesFingerprint(fingerprintHash)
         THEN LET r == saveFingerprintCache(store, config.platform,
                                            fingerprintHash, available)
                  key == cacheKey(config.platform, fingerprintHash)
              IN /\ pc' = StepNext(~r.threw, "done")
                 /\ failedAt' = IF r.threw THEN "saveFingerprintCache"
                                ELSE failedAt
                 /\ store' = r.store
                 /\ obs' = [obs EXCEPT
                              !.fpSaveInvoked = TRUE,
                              !.saveAvailable = available,
                              !.saveRejected =
                                  saveCache(store, key, available).rejected]
                 /\ completedNative' =
                        IF r.threw THEN completedNative
                        ELSE completedNative
                             \cup {<<config.platform, fingerprintHash>>}
         ELSE /\ pc' = "done"
              /\ UNCHANGED <<failedAt, store, obs, completedNative>>
    /\ UNCHANGED <<profileLookup, project, bumpCall, compared,
                   fingerprintCall, depCache, jobs>>
    /\ UNCHANGED <<file, inputs, rawConfig, config, fingerprintHash,
                   skipNativeBuild, buildMode, bumpArgs>>

----------------------------------------------------------------------------
\* Config files and action inputs the runs are started with

\* what is at configPath: nothing, a file that cannot be read, text that is
\* not JSON, a JSON value that is not an object, or the JSON object j
FileAt(exists, readable, wellFormed, rootIsObject, j) ==
    [path |-> DEFAULT_CONFIG_PATH, exists |-> exists, readable |-> readable,
     wellFormed |-> wellFormed, rootIsObject |-> rootIsObject, json |-> j]
NoFile == FileAt(FALSE, FALSE, FALSE, FALSE, EmptyConfig)
UnreadableFile == FileAt(TRUE, FALSE, FALSE, FALSE, EmptyConfig)
BadJsonFile == FileAt(TRUE, TRUE, FALSE, FALSE, EmptyConfig)
NonObjectJsonFile == FileAt(TRUE, TRUE, TRUE, FALSE, EmptyConfig)
JsonFile(j) == FileAt(TRUE, TRUE, TRUE, TRUE, j)

FileIos == [scheme |-> "MyApp", buildConfiguration |-> "Debug",
            exportMethod |-> "ad-hoc"]
BadFileIos == [scheme |-> "MyApp", buildConfiguration |-> "Debug",
               exportMethod |-> "bogus"]
FileAndroid == [buildType |-> "debug", aab |-> FALSE]

FileProfiles == [ios : {NoObj, FileIos, BadFileIos},
                 android : {NoObj, FileAndroid}]
FileBuilds == UNION {[S -> FileProfiles] : S \in SUBSET ProfileNames}

FileVersion(s, g) == [autoIncrement |-> TRUE, source |-> Undefined,
                      strategy |-> s, gitTagPattern |-> g]
FileVersions == {NoObj, FileVersion(Undefined, Undefined),
                 FileVersion("git-commit-count", Undefined),
                 FileVersion("git-tag", "release-*")}

ConfigFiles ==
    {NoFile, UnreadableFile, BadJsonFile, NonObjectJsonFile}
    \cup {JsonFile(j) : j \in [build : FileBuilds \cup {NoObj},
                               version : FileVersions]}

\* inputs that exercise configuration resolution (flags fixed)
ConfigInputs ==
    [platform : Platforms,
     profile : {""} \cup ProfileNames \cup {"constructor"},
     submit : {FALSE}, ota : {FALSE}, versionBump : {TRUE}, cache : {TRUE},
     fingerprint : {FALSE},
     iosScheme : {Undefined, "", "MyApp-Production"},
     iosBuildConfiguration : {Undefined, "Release-Production"},
     versionStrategy : {Undefined, "timestamp"},
     versionGitTagPattern : {Undefined, "build-*"}]

\* config files and inputs that exercise the routing (flags free)
PipelineFiles ==
    {NoFile,
     JsonFile([build |-> [n \in {DEFAULT_PROFILE} |->
                            [ios |-> FileIos, android |-> NoObj]],
               version |-> NoObj])}

PipelineInputs ==
    [platform : Platforms,
     profile : {DEFAULT_PROFILE},
     submit : BOOLEAN, ota : BOOLEAN, versionBump : BOOLEAN, cache : {TRUE},
     fingerprint : BOOLEAN,
     iosScheme : {Undefined},
     iosBuildConfiguration : {Undefined},
     versionStrategy : {Undefined},
     versionGitTagPattern : {Undefined}]

\* state of run() on entry
RunEntry ==
    /\ pc = "start"
    /\ rawConfig = NoObj
    /\ config = NoObj
    /\ fingerprintHash = Undefined
    /\ skipNativeBuild = FALSE
    /\ buildMode = Undefined
    /\ failedAt = ""
    /\ obs = NoObs
    /\ bumpArgs = NoObj
    /\ profileLookup = NoObj

\* a new job starts run() against the same cache store
StartRun ==
    /\ pc \in {"done", "failed"}
    /\ pc' = "start"
    /\ rawConfig' = NoObj
    /\ config' = NoObj
    /\ fingerprintHash' = Undefined
    /\ skipNativeBuild' = FALSE
    /\ buildMode' = Undefined
    /\ failedAt' = ""
    /\ obs' = NoObs
    /\ bumpArgs' = NoObj
    /\ profileLookup' = NoObj
    /\ inputs' \in PipelineInputs
    /\ file' \in PipelineFiles
    /\ UNCHANGED <<store, completedNative, project, bumpCall,
                   compared, fingerprintCall, depCache, jobs>>

Init ==
    /\ RunEntry
    /\ inputs \in PipelineInputs
    /\ file \in PipelineFiles
    /\ store = {}
    /\ completedNative = {}
    /\ project = NoObj
    /\ bumpCall = NoObj
    /\ compared = NoObj
    /\ fingerprintCall = NoObj
    /\ depCache = NoObj
    /\ jobs = NoObj

Next ==
    \/ StartRun
    \/ ParseConfigFile
    \/ MergeActionInputs
    \/ FingerprintCompute
    \/ FingerprintRestore
    \/ RouteDecision
    \/ RunOtaPipeline
    \/ RunSetup
    \/ NativeVersionBump
    \/ NativeBuild
    \/ NativeSubmit
    \/ SaveCaches
    \/ SaveFingerprintCache

Spec == Init /\ [][Next]_vars

\* one run per config file and inputs record, up to the version bump
InitConfig ==
    /\ RunEntry
    /\ inputs \in ConfigInputs
    /\ file \in ConfigFiles
    /\ store = {}
    /\ completedNative = {}
    /\ project = NoObj
    /\ bumpCall = NoObj
    /\ compared = NoObj
    /\ fingerprintCall = NoObj
    /\ depCache = NoObj
    /\ jobs = NoObj

NextConfig ==
    \/ ParseConfigFile
    \/ MergeActionInputs
    \/ RouteDecision
    \/ RunSetup
    \/ NativeVersionBump

SpecConfig == InitConfig /\ [][NextConfig]_vars

----------------------------------------------------------------------------
\* Properties of the routing and of the fingerprint cache (Spec)

PostRoutePcs == {"ota", "setup", "bump", "build", "submit", "savecaches",
                 "savefp", "done"}
PostRouteFailures == {"runOtaPipeline", "runSetup", "bumpVersion", "build",
                      "submit", "saveFingerprintCache"}

\* the run is past the if (config.ota || skipNativeBuild) decision
RouteTaken ==
    pc \in PostRoutePcs \/ (pc = "failed" /\ failedAt \in PostRouteFailures)

\* C1: the route is a function of (fingerprint flag, ota flag, cache result):
\* with fingerprinting on and OTA not requested the fingerprint is computed
\* and the OTA pipeline runs iff the cache restore returned true; otherwise
\* no fingerprint is computed and the OTA pipeline runs iff the ota flag is
\* set; exactly one of the two pipelines is run.
C1_RouteFixedByFlagsAndCache ==
    IF RouteTaken
    THEN /\ obs.ranOta # obs.ranNative
         /\ IF inputs.fingerprint /\ ~inputs.ota
            THEN /\ obs.fingerprintComputed
                 /\ obs.cached \in {"true", "false"}
                 /\ obs.ranOta <=> (obs.cached = "true")
            ELSE /\ ~obs.fingerprintComputed
                 /\ fingerprintHash = Undefined
                 /\ obs.cached = "none"
                 /\ obs.ranOta <=> inputs.ota
    ELSE ~obs.ranOta /\ ~obs.ranNative

C1_Witness ==
    /\ pc = "done"
    /\ inputs.fingerprint /\ ~inputs.ota
    /\ obs.cached = "true"
    /\ obs.ranOta

\* C2: a cache entry exists only for a (platform, hash) whose native build
\* succeeded in an earlier run, and a run skips its native build for
\* (platform, hash) only if such a run exists.
C2_OtaOnlyAfterNativeBuild ==
    /\ \A k \in store :
         \E ph \in completedNative : k = cacheKey(ph[1], ph[2])
    /\ skipNativeBuild =>
         <<inputs.platform, fingerprintHash>> \in completedNative

C2_Witness ==
    /\ pc = "ota"
    /\ skipNativeBuild
    /\ Cardinality(store) >= 2

\* C3: saveFingerprintCache is invoked only after the run's native pipeline
\* (submit included) returned without error: never on the OTA route, never
\* with fingerprinting disabled, never when the native pipeline threw.
C3_SaveOnlyAfterNativeSuccess ==
    /\ obs.fpSaveInvoked =>
         /\ obs.nativeReturned
         /\ ~obs.nativeThrew
         /\ obs.ranNative /\ ~obs.ranOta
         /\ inputs.fingerprint
    /\ obs.nativeThrew => pc = "failed"
    /\ (obs.nativeReturned /\ inputs.submit) => failedAt # "submit"

C3_Witness ==
    /\ pc = "done"
    /\ obs.fpSaveInvoked
    /\ inputs.submit
    /\ obs.nativeReturned

\* C4 as stated: once a native run with fingerprint h has completed, a later
\* run with the same platform and h whose restore reaches the store gets
\* true; a run whose (platform, h) was never saved gets false.
C4_HitAfterAnyCompletedNative ==
    pc = "route" =>
      /\ (~obs.restoreRejected
          /\ <<inputs.platform, fingerprintHash>> \in completedNative)
            => skipNativeBuild
      /\ <<inputs.platform, fingerprintHash>> \notin completedNative
            => ~skipNativeBuild

\* C4 amended: a native run whose fingerprint save reached the store leaves
\* its key in the store; keys persist; a later run whose restore reaches
\* the store gets true exactly for a key in the store, and a run whose
\* (platform, h) was never saved gets false.
C4_MissThenHitState ==
    /\ (pc = "done" /\ obs.fpSaveInvoked /\ obs.saveAvailable) =>
         /\ cacheKey(inputs.platform, fingerprintHash) \in store
         /\ <<inputs.platform, fingerprintHash>> \in completedNative
    /\ pc = "route" =>
         /\ (~obs.restoreRejected
             /\ cacheKey(inputs.platform, fingerprintHash) \in store)
               => (skipNativeBuild /\ buildMode = "ota")
         /\ <<inputs.platform, fingerprintHash>> \notin completedNative
               => ~skipNativeBuild

C4_MissThenHit ==
    /\ []C4_MissThenHitState
    /\ [][store \subseteq store']_vars

C4_Witness ==
    /\ pc = "route"
    /\ skipNativeBuild
    /\ \E h \in Hashes :
         /\ h # fingerprintHash
         /\ <<inputs.platform, h>> \in completedNative

\* C5: a rejecting cache store never fails the run: a rejected restore
\* reads as a miss and the native route is taken; a rejected save returns
\* normally and the run completes.
C5_StoreFailuresNeverPropagate ==
    /\ failedAt \notin {"restoreFingerprintCache", "saveFingerprintCache"}
    /\ obs.restoreRejected =>
         /\ obs.cached = "false"
         /\ ~skipNativeBuild
         /\ RouteTaken => obs.ranNative
    /\ obs.saveRejected => pc = "done"

C5_Witness ==
    /\ pc = "done"
    /\ obs.restoreRejected
    /\ obs.saveRejected

----------------------------------------------------------------------------
\* Properties of configuration resolution (SpecConfig)

\* the section stored in the config file for the requested profile/platform
StoredSection(platform) ==
    LET name == IF inputs.profile \in {Undefined, ""} THEN "production"
                ELSE inputs.profile
    IN IF ~file.exists \/ file.json.build = NoObj THEN NoObj
       ELSE IF name \notin DOMAIN file.json.build THEN NoObj
       ELSE file.json.build[name][platform]

\* C6: a ResolvedConfig has exactly one platform section: ios iff platform
\* is "ios", android iff platform is "android".
C6_ExactlyOnePlatformSection ==
    config # NoObj =>
      /\ (config.ios # NoObj) <=> (config.platform = "ios")
      /\ (config.android # NoObj) <=> (config.platform = "android")
      /\ (config.ios # NoObj) # (config.android # NoObj)

C6_Witness ==
    /\ config # NoObj
    /\ file.exists
    /\ config.platform = "ios"
    /\ StoredSection("android") # NoObj
    /\ config.android = NoObj

\* C7: resolved.ios.scheme / buildConfiguration are the action input when
\* supplied, else the selected profile's value, else the hard default; an
\* override leaves exportMethod as stored in the config file.
C7_IosInputPrecedence ==
    (config # NoObj /\ config.platform = "ios") =>
      LET stored == StoredSection("ios")
      IN /\ config.ios.scheme =
              IF inputs.iosScheme \notin {Undefined, ""} THEN inputs.iosScheme
              ELSE IF stored # NoObj THEN stored.scheme
              ELSE Undefined
         /\ config.ios.buildConfiguration =
              IF inputs.iosBuildConfiguration \notin {Undefined, ""}
              THEN inputs.iosBuildConfiguration
              ELSE IF stored # NoObj THEN stored.buildConfiguration
              ELSE "Release"
         /\ config.ios.exportMethod =
              IF stored # NoObj THEN stored.exportMethod ELSE "app-store"

C7_Witness ==
    /\ config # NoObj
    /\ config.platform = "ios"
    /\ StoredSection("ios") # NoObj
    /\ inputs.iosScheme = "MyApp-Production"
    /\ inputs.iosBuildConfiguration = Undefined
    /\ config.ios = [scheme |-> "MyApp-Production",
                     buildConfiguration |-> "Debug",
                     exportMethod |-> "ad-hoc"]

\* C8: the strategy and tag pattern bumpVersion works with are the action
\* inputs when supplied, else the config file's version.strategy /
\* version.gitTagPattern, else the defaults app-json and "v*".
C8_VersionInputPrecedence ==
    bumpArgs # NoObj =>
      LET version == IF file.exists THEN file.json.version ELSE NoObj
      IN /\ bumpArgs.effectiveStrategy =
              IF inputs.versionStrategy \notin {Undefined, ""}
              THEN inputs.versionStrategy
              ELSE IF version # NoObj /\ version.strategy # Undefined
              THEN version.strategy
              ELSE "app-json"
         /\ bumpArgs.effectivePattern =
              IF inputs.versionGitTagPattern \notin {Undefined, ""}
              THEN inputs.versionGitTagPattern
              ELSE IF version # NoObj /\ version.gitTagPattern # Undefined
              THEN version.gitTagPattern
              ELSE "v*"

\* C9: with no config file, resolution never fails and the platform
\* settings are the hard defaults: android {release, aab}, ios Release and
\* app-store (buildConfiguration unless an input overrides it).
C9_EmptyConfigDefaults ==
    (~file.exists /\ pc # "start") =>
      /\ rawConfig = Returned(EmptyConfig)
      /\ failedAt \notin {"parseConfigFile", "mergeActionInputs"}
      /\ pc # "parsed" =>
           /\ config # NoObj
           /\ config.platform = inputs.platform
           /\ config.platform = "android" =>
                config.android = [buildType |-> "release", aab |-> TRUE]
           /\ config.platform = "ios" =>
                /\ config.ios.exportMethod = "app-store"
                /\ inputs.iosBuildConfiguration \in {Undefined, ""} =>
                     config.ios.buildConfiguration = "Release"

C9_Witness ==
    /\ ~file.exists
    /\ inputs.profile = "staging"
    /\ config # NoObj
    /\ config.android = [buildType |-> "release", aab |-> TRUE]

\* C10: every config parseConfigFile returns from an existing file has at
\* least one platform in each build profile.
C10_EveryProfileHasPlatform ==
    (rawConfig # NoObj /\ file.exists /\ ~rawConfig.threw) =>
      \A n \in DOMAIN rawConfig.value.build :
        rawConfig.value.build[n].ios # NoObj
        \/ rawConfig.value.build[n].android # NoObj

----------------------------------------------------------------------------
\* Properties of parseConfigFile and getProfileConfig (SpecConfig)

\* the field paths of the config file's JSON object that break the schema,
\* read off the file field by field
ViolatedFieldPaths(json) ==
    (IF json.build = NoObj THEN {"build"}
     ELSE {"build." \o n \o ".ios.exportMethod" :
             n \in {m \in DOMAIN json.build :
                      /\ json.build[m].ios # NoObj
                      /\ json.build[m].ios.exportMethod \notin ExportMethods}}
          \cup
          {"build." \o n \o ".android.buildType" :
             n \in {m \in DOMAIN json.build :
                      /\ json.build[m].android # NoObj
                      /\ json.build[m].android.buildType \notin BuildTypes}})
    \cup
    (IF json.version # NoObj /\ json.version.strategy # Undefined
        /\ json.version.strategy \notin VersionStrategies
     THEN {"version.strategy"} ELSE {})

\* C11: the outcome of parseConfigFile is fixed by three tests in order: no
\* file gives the empty config and no error; a file that is not well-formed
\* JSON gives an error naming the file; well-formed JSON that breaks the
\* schema gives one error naming the file and listing every violated field
\* path, not only the first; otherwise the parsed config is returned.
C11_ParseOutcomeByThreeConditions ==
    pc # "start" =>
      IF ~file.exists
      THEN rawConfig = Returned(EmptyConfig) /\ failedAt # "parseConfigFile"
      ELSE IF ~file.readable \/ ~file.wellFormed
      THEN /\ rawConfig.threw
           /\ rawConfig.error.file = file.path
           /\ rawConfig.error.kind # "Invalid config"
           /\ pc = "failed" /\ failedAt = "parseConfigFile"
      ELSE IF ~file.rootIsObject \/ ViolatedFieldPaths(file.json) # {}
      THEN /\ rawConfig.threw
           /\ rawConfig.error.kind = "Invalid config"
           /\ rawConfig.error.file = file.path
           /\ rawConfig.error.paths =
                IF file.rootIsObject THEN ViolatedFieldPaths(file.json)
                ELSE {"(root)"}
           /\ pc = "failed" /\ failedAt = "parseConfigFile"
      ELSE rawConfig = Returned(file.json) /\ failedAt # "parseConfigFile"

C11_Witness ==
    /\ pc = "failed"
    /\ failedAt = "parseConfigFile"
    /\ rawConfig.error.kind = "Invalid config"
    /\ Cardinality(rawConfig.error.paths) >= 2

\* C12 as stated: on a config with a build section getProfileConfig(config,
\* P, X) returns exactly the stored object when P is a profile in which X is
\* configured; throws an error naming P and all available profile names
\* when P is not a profile name; and throws an error naming X, P and the
\* configured platforms ("none" if there is none) when P is a profile
\* without X.
C12_ProfileLookupOutcome ==
    (profileLookup # NoObj /\ rawConfig.value.build # NoObj) =>
      LET build == rawConfig.value.build
          P == IF inputs.profile = "" THEN "production" ELSE inputs.profile
          X == inputs.platform
          other == CHOOSE y \in Platforms : y # X
      IN IF P \notin DOMAIN build
         THEN /\ profileLookup.threw
              /\ profileLookup.error.kind = "profile not found"
              /\ profileLookup.error.profile = P
              /\ profileLookup.error.available = DOMAIN build
         ELSE IF build[P][X] = NoObj
         THEN /\ profileLookup.threw
              /\ profileLookup.error.kind = "platform not configured"
              /\ profileLookup.error.profile = P
              /\ profileLookup.error.platform = X
              /\ profileLookup.error.configured =
                   IF build[P][other] = NoObj THEN "none" ELSE other
         ELSE profileLookup = Returned(build[P][X])

----------------------------------------------------------------------------
\* version/bump.ts: the files of projectDir

\* app.json: missing, not JSON, or holding the JSON object json
NoAppJson == [exists |-> FALSE, wellFormed |-> FALSE, json |-> EmptyObject]
BrokenAppJson == [exists |-> TRUE, wellFormed |-> FALSE, json |-> EmptyObject]
AppJsonFile(json) == [exists |-> TRUE, wellFormed |-> TRUE, json |-> json]

\* fs.promises.readFile + JSON.parse of app.json
ReadJson(f) ==
    IF ~f.exists THEN Thrown([kind |-> "ENOENT"])
    ELSE IF ~f.wellFormed THEN Thrown([kind |-> "SyntaxError"])
    ELSE Returned(f.json)

\* fs.promises.writeFile(path, JSON.stringify(json, null, 2) + '\n')
WriteJson(json) == AppJsonFile(WrittenJson(json))

\* variant: a dynamic config that resolves is preferred to app.json
resolveExpoConfig_dynamicFirst(proj, source) ==
    IF Truthy(source) THEN ReadJson(proj.appJson)
    ELSE IF proj.dynamic.exists /\ proj.dynamic.resolves
    THEN Returned(JObj([k \in {"expo"} |-> proj.dynamic.resolved]))
    ELSE IF ~ReadJson(proj.appJson).threw THEN ReadJson(proj.appJson)
    ELSE IF proj.dynamic.exists
    THEN Thrown([kind |-> "could not resolve dynamic config"])
    ELSE Thrown([kind |-> "No app config found"])

\* resolveExpoConfig(projectDir, source): the config to bump; the file
\* written back is app.json in every case modelled (source is undefined or
\* names app.json)
resolveExpoConfig(proj, source) ==
    IF Truthy(source) THEN ReadJson(proj.appJson)
    ELSE IF ~ReadJson(proj.appJson).threw THEN ReadJson(proj.appJson)
    ELSE IF proj.dynamic.exists
    THEN IF ~proj.dynamic.resolves
         THEN Thrown([kind |-> "could not resolve dynamic config"])
         ELSE LET wrapped == JObj([k \in {"expo"} |-> proj.dynamic.resolved])
                  existingJson ==
                      IF ReadJson(proj.appJson).threw THEN EmptyObject
                      ELSE ReadJson(proj.appJson).value
              IN Returned(IF DOMAIN existingJson.o # {} THEN existingJson
                          ELSE wrapped)
    ELSE Thrown([kind |-> "No app config found"])

\* dottedPath.split('.') of the field names the module uses
FieldKeys(field) ==
    CASE field = "expo.ios.buildNumber" -> <<"expo", "ios", "buildNumber">>
      [] field = "expo.buildNumber" -> <<"expo", "buildNumber">>
      [] field = "expo.android.versionCode" ->
           <<"expo", "android", "versionCode">>
      [] field = "expo.versionCode" -> <<"expo", "versionCode">>

RECURSIVE setNestedValue(_, _, _)

\* variant: every intermediate object is made anew
setNestedValue_anew(obj, keys, value) ==
    IF Len(keys) = 1 THEN Put(obj, keys[1], value)
    ELSE Put(obj, keys[1], setNestedValue(EmptyObject, Tail(keys), value))

\* setNestedValue(obj, dottedPath, value), given the keys of dottedPath
setNestedValue(obj, keys, value) ==
    IF Len(keys) = 1 THEN Put(obj, keys[1], value)
    ELSE LET current == IF Get(obj, keys[1]).t # "object" THEN EmptyObject
                        ELSE Get(obj, keys[1])
         IN Put(obj, keys[1], setNestedValue(current, Tail(keys), value))

\* the value read at the keys of a dotted path (undefined when any step is
\* missing)
RECURSIVE GetNested(_, _)
GetNested(obj, keys) ==
    IF keys = <<>> THEN obj
    ELSE GetNested(Get(obj, keys[1]), Tail(keys))

\* variant: a number on both platforms
EncodedBuildNumber_numberOnly(platform, newValue) ==
    JNum(newValue)

\* platform === 'ios' ? String(newValue) : newValue
EncodedBuildNumber(platform, newValue) ==
    IF platform = "ios" THEN JStr(String(newValue)) ELSE JNum(newValue)

PlatformField(platform) ==
    IF platform = "ios" THEN "expo.ios.buildNumber"
    ELSE "expo.android.versionCode"

FallbackField(platform) ==
    IF platform = "ios" THEN "expo.buildNumber" ELSE "expo.versionCode"

\* variant: the fallback value is read but the platform field is reported
SelectedField_alwaysPlatform(platform, json) ==
    PlatformField(platform)

\* bumpFromAppJson: the field the build number is read from
SelectedField(platform, json) ==
    IF GetNested(json, FieldKeys(PlatformField(platform))).t # "undefined"
    THEN PlatformField(platform)
    ELSE IF GetNested(json, FieldKeys(FallbackField(platform))).t
              # "undefined"
    THEN FallbackField(platform)
    ELSE PlatformField(platform)

\* a BumpResult; version is undefined but for git-tag
BumpResult(previousValue, newValue, field, version) ==
    [previousValue |-> previousValue, newValue |-> newValue,
     field |-> field, version |-> version]

----------------------------------------------------------------------------
\* version/bump.ts: the four strategies.  Each returns the outcome of the
\* call (a BumpResult or the error thrown) and the app.json it leaves.

StrategyOutcome(result, appJson) == [result |-> result, appJson |-> appJson]

\* bumpFromAppJson: previousRaw === undefined ? 0 : Number(previousRaw),
\* NaN when the code throws the non-numeric error
PreviousValue(raw) ==
    IF raw.t = "undefined" THEN Finite(0) ELSE Number(raw)

\* variant: the incremented value is not put into the config
AppJsonWrite_unset(platform, json, field, newValue) ==
    json

\* bumpFromAppJson: setNestedValue(json, field, ios ? String(n) : n)
AppJsonWrite(platform, json, field, newValue) ==
    setNestedValue(json, FieldKeys(field),
                   EncodedBuildNumber(platform, newValue))

\* bumpFromAppJson(platform, projectDir, source)
bumpFromAppJson(platform, proj, source) ==
    LET resolved == resolveExpoConfig(proj, source)
    IN IF resolved.threw THEN StrategyOutcome(resolved, proj.appJson)
       ELSE
         LET json == resolved.value
             field == SelectedField(platform, json)
             previousRaw == GetNested(json, FieldKeys(field))
             previous == PreviousValue(previousRaw)
         IN IF previous.nan
            THEN StrategyOutcome(
                   Thrown([kind |-> "non-numeric value", field |-> field,
                           raw |-> TemplateText(previousRaw)]),
                   proj.appJson)
            ELSE StrategyOutcome(
                   Returned(BumpResult(previous.n, previous.n + 1, field,
                                       JUndefined)),
                   WriteJson(AppJsonWrite(platform, json, field,
                                          previous.n + 1)))

\* writeVersionToAppJson(projectDir, source, field, value, strategyName,
\* extraMutations): best effort, version is what extraMutations sets as
\* expo.version (undefined: no extraMutations)
writeVersionToAppJson(proj, source, field, value, version) ==
    IF ReadJson(proj.appJson).threw THEN proj.appJson
    ELSE LET json == setNestedValue(ReadJson(proj.appJson).value,
                                    FieldKeys(field), value)
         IN WriteJson(IF version.t = "undefined" THEN json
                      ELSE setNestedValue(json, <<"expo", "version">>,
                                          version))

\* the end of the longest run of digits of s that starts at i (i - 1 when
\* s[i] is no digit)
DigitRunEnd(s, i) ==
    CHOOSE j \in (i - 1)..Len(s) :
      /\ \A k \in i..j : IsDigit(s[k])
      /\ j = Len(s) \/ ~IsDigit(s[j + 1])

\* the end of the n-th digit group of /(\d+)\.(\d+)\.(\d+)/ tried at
\* position i of s; a group starts two places after the end of the one before
RECURSIVE GroupEnd(_, _, _)
GroupEnd(s, i, n) ==
    IF n = 1 THEN DigitRunEnd(s, i)
    ELSE DigitRunEnd(s, GroupEnd(s, i, n - 1) + 2)

\* /(\d+)\.(\d+)\.(\d+)/ matches s from position i on
SemverAt(s, i) ==
    /\ GroupEnd(s, i, 1) >= i
    /\ GroupEnd(s, i, 1) + 1 <= Len(s) /\ s[GroupEnd(s, i, 1) + 1] = "."
    /\ GroupEnd(s, i, 2) >= GroupEnd(s, i, 1) + 2
    /\ GroupEnd(s, i, 2) + 1 <= Len(s) /\ s[GroupEnd(s, i, 2) + 1] = "."
    /\ GroupEnd(s, i, 3) >= GroupEnd(s, i, 2) + 2

NoVersion == [none |-> TRUE]
Version(major, minor, patch) ==
    [major |-> major, minor |-> minor, patch |-> patch]

\* parseInt of the three groups of the match at position i of tag
MatchedVersion(tag, i) ==
    Version(DecimalValue(SubSeq(tag, i, GroupEnd(tag, i, 1))),
            DecimalValue(SubSeq(tag, GroupEnd(tag, i, 1) + 2,
                                GroupEnd(tag, i, 2))),
            DecimalValue(SubSeq(tag, GroupEnd(tag, i, 2) + 2,
                                GroupEnd(tag, i, 3))))

\* parseVersionFromTag(tag): the leftmost match, each group through parseInt
parseVersionFromTag(tag) ==
    IF ~\E i \in 1..Len(tag) : SemverAt(tag, i) THEN NoVersion
    ELSE MatchedVersion(tag, CHOOSE x \in 1..Len(tag) :
                               /\ SemverAt(tag, x)
                               /\ \A y \in 1..(x - 1) : ~SemverAt(tag, y))

\* variant: minor weighs 10 and major 100
BuildNumberOf_narrow(v) == v.major * 100 + v.minor * 10 + v.patch

\* bumpFromGitTag: major * 10000 + minor * 100 + patch
BuildNumberOf(v) == v.major * 10000 + v.minor * 100 + v.patch

\* `${major}.${minor}.${patch}`
VersionString(v) ==
    String(v.major) \o <<".">> \o String(v.minor) \o <<".">>
      \o String(v.patch)

\* variant: the patch is incremented whatever the major
NewVersion_alwaysPatch(previousVersion) ==
    Version(IF previousVersion.major = 0 THEN 1 ELSE previousVersion.major,
            previousVersion.minor, previousVersion.patch + 1)

\* bumpFromGitTag: the version that follows previousVersion
NewVersion(previousVersion) ==
    IF previousVersion = Version(0, 0, 0) THEN Version(1, 0, 0)
    ELSE Version(IF previousVersion.major = 0 THEN 1
                 ELSE previousVersion.major,
                 previousVersion.minor,
                 previousVersion.patch
                   + (IF previousVersion.major = 0 THEN 0 ELSE 1))

\* bumpFromGitTag: the triple the tag stands for; describe is the outcome of
\* git describe --tags --abbrev=0 --match=<pattern>
ParsedOrZero(parsed) ==
    IF parsed = NoVersion THEN Version(0, 0, 0) ELSE parsed
PreviousVersion(describe) ==
    IF describe.threw \/ Trim(describe.value) = <<>> THEN Version(0, 0, 0)
    ELSE ParsedOrZero(parseVersionFromTag(Trim(describe.value)))

\* bumpFromGitTag once the tag is parsed: the new version, the build numbers
\* and the write of expo.<platform> and expo.version
GitTagOutcome(platform, proj, source, previousVersion) ==
    StrategyOutcome(
      Returned(BumpResult(BuildNumberOf(previousVersion),
                          BuildNumberOf(NewVersion(previousVersion)),
                          PlatformField(platform),
                          JStr(VersionString(NewVersion(previousVersion))))),
      writeVersionToAppJson(
        proj, source, PlatformField(platform),
        EncodedBuildNumber(platform,
                           BuildNumberOf(NewVersion(previousVersion))),
        JStr(VersionString(NewVersion(previousVersion)))))

\* variant: the error of git describe is not caught
bumpFromGitTag_noCatch(platform, proj, source, gitTagPattern, describe) ==
    IF describe.threw THEN StrategyOutcome(describe, proj.appJson)
    ELSE GitTagOutcome(platform, proj, source, PreviousVersion(describe))

\* bumpFromGitTag(platform, projectDir, source, gitTagPattern)
bumpFromGitTag(platform, proj, source, gitTagPattern, describe) ==
    GitTagOutcome(platform, proj, source, PreviousVersion(describe))

\* parseInt(text, 10) of text without sign: the leading digits, NaN if none
ParseInt(text) ==
    IF DigitRunEnd(text, 1) = 0 THEN NaN
    ELSE Finite(DecimalValue(SubSeq(text, 1, DigitRunEnd(text, 1))))

\* bumpFromGitCommitCount(platform, projectDir, source); revList is the
\* stdout of git rev-list --count HEAD
bumpFromGitCommitCount(platform, proj, source, revList) ==
    LET commitCount == ParseInt(Trim(revList))
        field == PlatformField(platform)
    IN IF commitCount.nan
       THEN StrategyOutcome(
              Thrown([kind |-> "non-numeric commit count",
                      raw |-> Trim(revList)]),
              proj.appJson)
       ELSE StrategyOutcome(
              Returned(BumpResult(0, commitCount.n, field, JUndefined)),
              writeVersionToAppJson(proj, source, field,
                                    EncodedBuildNumber(platform,
                                                       commitCount.n),
                                    JUndefined))

\* bumpFromTimestamp(platform, projectDir, source); timestamp is what
\* generateTimestamp() returns for the clock reading of the call
bumpFromTimestamp(platform, proj, source, timestamp) ==
    StrategyOutcome(
      Returned(BumpResult(0, timestamp, PlatformField(platform),
                          JUndefined)),
      writeVersionToAppJson(proj, source, PlatformField(platform),
                            EncodedBuildNumber(platform, timestamp),
                            JUndefined))

----------------------------------------------------------------------------
\* version/bump.ts: native project files and bumpVersion

\* the directories of ios/ that updateNativeInfoPlist skips: Pods and the
\* names that start with a dot
SkippedIosDirs == {"Pods", ".derivedData"}

\* updateNativeInfoPlist(projectDir, buildNumber, version): infoPlists maps
\* each directory of ios/ that holds an Info.plist to its two version keys
updateNativeInfoPlist(proj, buildNumber, version) ==
    [d \in DOMAIN proj.infoPlists |->
       IF d \in SkippedIosDirs \/ ~proj.plutil THEN proj.infoPlists[d]
       ELSE [CFBundleVersion |-> buildNumber,
             CFBundleShortVersionString |->
               IF version.t = "string" /\ version.s # <<>> THEN version.s
               ELSE proj.infoPlists[d].CFBundleShortVersionString]]

\* updateNativeBuildGradle(projectDir, versionCode, version): the first
\* versionCode <digits> and versionName "<text>" of build.gradle, undefined
\* when the file has no such text
updateNativeBuildGradle(proj, versionCode, version) ==
    IF ~proj.buildGradle.exists THEN proj.buildGradle
    ELSE [proj.buildGradle EXCEPT
            !.versionCode = IF @.t = "undefined" THEN @
                            ELSE JNum(versionCode),
            !.versionName =
                IF @.t = "undefined" \/ version.t # "string"
                   \/ version.s = <<>>
                THEN @ ELSE version]

\* the switch of bumpVersion; env holds what git and the clock answer
StrategyResult(platform, proj, source, strategy, gitTagPattern, env) ==
    CASE EffectiveStrategy(strategy) = "app-json" ->
           bumpFromAppJson(platform, proj, source)
      [] EffectiveStrategy(strategy) = "git-tag" ->
           bumpFromGitTag(platform, proj, source, gitTagPattern, env.describe)
      [] EffectiveStrategy(strategy) = "git-commit-count" ->
           bumpFromGitCommitCount(platform, proj, source, env.revList)
      [] EffectiveStrategy(strategy) = "timestamp" ->
           bumpFromTimestamp(platform, proj, source, env.timestamp)
      [] OTHER ->
           StrategyOutcome(Thrown([kind |-> "Unknown version strategy"]),
                           proj.appJson)

\* bumpVersion after the strategy returned out: the native project file of
\* the platform follows the new build number
NativeFilesUpdated(platform, proj, out) ==
    [result |-> out.result,
     project |->
       IF out.result.threw THEN [proj EXCEPT !.appJson = out.appJson]
       ELSE IF platform = "ios"
       THEN [proj EXCEPT
               !.appJson = out.appJson,
               !.infoPlists =
                   updateNativeInfoPlist(
                     proj, String(out.result.value.newValue),
                     out.result.value.version)]
       ELSE [proj EXCEPT
               !.appJson = out.appJson,
               !.buildGradle =
                   updateNativeBuildGradle(
                     proj, out.result.value.newValue,
                     out.result.value.version)]]

\* bumpVersion(platform, projectDir, source, strategy, gitTagPattern): the
\* outcome and the project it leaves
bumpVersion(platform, proj, source, strategy, gitTagPattern, env) ==
    NativeFilesUpdated(platform, proj,
                       StrategyResult(platform, proj, source, strategy,
                                      gitTagPattern, env))

----------------------------------------------------------------------------
\* Projects the version bump is run on, and successive bumps of one project

MaxBumps == 3

\* the expo section of an app config with the four build-number fields
ExpoSection(iosBuildNumber, buildNumber, androidVersionCode, versionCode) ==
    JObj([name |-> JStr(<<"M", "y", "A", "p", "p">>),
          version |-> JStr(<<"1", ".", "2", ".", "3">>),
          buildNumber |-> buildNumber,
          versionCode |-> versionCode,
          ios |-> JObj([bundleIdentifier |-> JStr(<<"c", "o", "m">>),
                        supportsTablet |-> JTrue,
                        buildNumber |-> iosBuildNumber]),
          android |-> JObj([package |-> JStr(<<"c", "o", "m">>),
                            permissions |->
                              JArr(<<JStr(<<"C", "A", "M">>)>>),
                            versionCode |-> androidVersionCode]),
          extra |-> JObj([apiUrl |-> JStr(<<"u", "r", "l">>)])])

ExpoApp(iosBuildNumber, buildNumber, androidVersionCode, versionCode) ==
    WrittenJson(JObj([private |-> JTrue,
                      expo |-> ExpoSection(iosBuildNumber, buildNumber,
                                           androidVersionCode,
                                           versionCode)]))

\* an expo section without ios and android objects
ExpoWithoutPlatforms(buildNumber, versionCode) ==
    WrittenJson(JObj([expo |-> JObj([name |-> JStr(<<"M", "y">>),
                                     buildNumber |-> buildNumber,
                                     versionCode |-> versionCode])]))

\* an app.json of the bare workflow: no expo key
BareAppJson == JObj([name |-> JStr(<<"M", "y">>)])

PlatformRaws ==
    {JUndefined, JNum(5), JStr(<<"5">>), JStr(<<"a", "b", "c">>),
     JStr(<<>>), JTrue, JNull}
FallbackRaws == {JUndefined, JNum(7), JStr(<<"x">>)}

AppJsons ==
    {ExpoApp(i, t, JUndefined, JUndefined) :
       i \in PlatformRaws, t \in FallbackRaws}
    \cup {ExpoApp(JUndefined, JUndefined, a, c) :
            a \in PlatformRaws, c \in FallbackRaws}
    \cup {ExpoApp(JStr(<<"5">>), JUndefined, JNum(5), JUndefined)}
    \cup {ExpoWithoutPlatforms(t, c) :
            t \in {JUndefined, JNum(7)}, c \in {JUndefined, JNum(7)}}
    \cup {BareAppJson, EmptyObject}

\* app.config.js / app.config.ts and what npx expo config makes of it
NoDynamic == [exists |-> FALSE, resolves |-> FALSE, resolved |-> EmptyObject]
FailingDynamic ==
    [exists |-> TRUE, resolves |-> FALSE, resolved |-> EmptyObject]
Dynamic(resolved) ==
    [exists |-> TRUE, resolves |-> TRUE, resolved |-> WrittenJson(resolved)]
Dynamics ==
    {NoDynamic, FailingDynamic,
     Dynamic(ExpoSection(JStr(<<"7">>), JUndefined, JNum(3), JUndefined)),
     Dynamic(ExpoSection(JUndefined, JUndefined, JUndefined, JUndefined))}

\* native project files
NoBuildGradle ==
    [exists |-> FALSE, versionCode |-> JUndefined, versionName |-> JUndefined]
BuildGradle ==
    [exists |-> TRUE, versionCode |-> JNum(1),
     versionName |-> JStr(<<"1", ".", "0">>)]
\* a build.gradle that takes its versionCode from a property: no
\* versionCode <digits> text and no versionName "<text>"
BuildGradleByProperty ==
    [exists |-> TRUE, versionCode |-> JUndefined, versionName |-> JUndefined]
InfoPlist ==
    [CFBundleVersion |-> <<"1">>,
     CFBundleShortVersionString |-> <<"1", ".", "0">>]
InfoPlists == [d \in {"MyApp", "Pods"} |-> InfoPlist]

\* the arguments the workflow of the project hands to bumpVersion
Workflow(source, strategy, gitTagPattern) ==
    [source |-> source, strategy |-> strategy,
     gitTagPattern |-> gitTagPattern]
AppJsonWorkflows ==
    {Workflow(Undefined, Undefined, Undefined),
     Workflow("app.json", "app-json", Undefined)}

ManagedProject(appJson, dynamic, workflow) ==
    [appJson |-> appJson, dynamic |-> dynamic, infoPlists |-> <<>>,
     buildGradle |-> NoBuildGradle, plutil |-> TRUE, workflow |-> workflow]
PrebuiltProject(appJson, plutil, workflow) ==
    [appJson |-> appJson, dynamic |-> NoDynamic, infoPlists |-> InfoPlists,
     buildGradle |-> BuildGradle, plutil |-> plutil, workflow |-> workflow]

TestAppJson ==
    AppJsonFile(ExpoApp(JStr(<<"5">>), JUndefined, JNum(5), JUndefined))

AppJsonProjects ==
    {ManagedProject(AppJsonFile(j), NoDynamic, w) :
       j \in AppJsons, w \in AppJsonWorkflows}
    \cup {ManagedProject(f, d, w) :
            f \in {NoAppJson, BrokenAppJson}, d \in Dynamics,
            w \in AppJsonWorkflows}
    \cup {PrebuiltProject(TestAppJson, p,
                          Workflow(Undefined, Undefined, Undefined)) :
            p \in BOOLEAN}

StrategyProjects ==
    {ManagedProject(TestAppJson, NoDynamic, Workflow(Undefined, s, Undefined))
       : s \in {"git-tag", "git-commit-count", "timestamp"}}
    \cup {ManagedProject(AppJsonFile(BareAppJson), NoDynamic,
                         Workflow("app.json", "git-tag", "release-*"))}
    \cup {PrebuiltProject(NoAppJson, TRUE, Workflow(Undefined, s, Undefined))
            : s \in {"git-tag", "timestamp"}}
    \cup {ManagedProject(NoAppJson, NoDynamic,
                         Workflow(Undefined, "git-tag", Undefined)),
          PrebuiltProject(BrokenAppJson, TRUE,
                          Workflow(Undefined, "timestamp", Undefined)),
          [PrebuiltProject(TestAppJson, TRUE,
                           Workflow(Undefined, "timestamp", Undefined))
             EXCEPT !.buildGradle = BuildGradleByProperty]}

Projects == AppJsonProjects \cup StrategyProjects

\* what git and the clock answer during one call
Env(describe, revList, timestamp) ==
    [describe |-> describe, revList |-> revList, timestamp |-> timestamp]
NoEnv == Env(Thrown([kind |-> "no tag"]), <<>>, 0)
Tags ==
    {<<"v", "1", ".", "2", ".", "3", "\n">>,
     <<"v", "0", ".", "4", ".", "2", "\n">>,
     <<"v", "1", ".", "9", "9", ".", "9", "8", "\n">>,
     <<"r", "e", "l", "-", "2", ".", "0", ".", "0", "\n">>,
     <<"b", "e", "t", "a", "\n">>}
Environments(effectiveStrategy) ==
    CASE effectiveStrategy = "git-tag" ->
           {NoEnv} \cup {Env(Returned(t), <<>>, 0) : t \in Tags}
      [] effectiveStrategy = "git-commit-count" ->
           {Env(NoEnv.describe, r, 0) :
              r \in {<<"4", "2", "\n">>, <<"4", "3", "\n">>, <<"\n">>}}
      [] effectiveStrategy = "timestamp" ->
           {Env(NoEnv.describe, <<>>, 26110321)}
      [] OTHER -> {NoEnv}

\* no bumpVersion call yet; issued[p] lists the BumpResults returned for p
NoBumpCall ==
    [count |-> 0, platform |-> Undefined, env |-> NoEnv,
     before |-> NoObj, result |-> NoObj,
     issued |-> [p \in Platforms |-> <<>>]]

\* the project and the record of the call once bumpVersion returned out
BumpReturned(platform, env, out) ==
    /\ project' = out.project
    /\ bumpCall' =
         [count |-> bumpCall.count + 1,
          platform |-> platform,
          env |-> env,
          before |-> project,
          result |-> out.result,
          issued |->
            IF out.result.threw THEN bumpCall.issued
            ELSE [bumpCall.issued EXCEPT
                    ![platform] = Append(@, out.result.value)]]

\* one run's bumpVersion(platform, projectDir, source, strategy, pattern)
BumpVersion ==
    /\ pc = "bump"
    /\ bumpCall.count < MaxBumps
    /\ \E platform \in Platforms,
          env \in Environments(EffectiveStrategy(project.workflow.strategy)) :
         BumpReturned(platform, env,
                      bumpVersion(platform, project, project.workflow.source,
                                  project.workflow.strategy,
                                  project.workflow.gitTagPattern, env))
    /\ UNCHANGED <<pc, file, inputs, rawConfig, config, fingerprintHash,
                   skipNativeBuild, buildMode, failedAt, obs, bumpArgs,
                   store, completedNative, profileLookup, compared,
                   fingerprintCall, depCache, jobs>>

InitBump ==
    /\ pc = "bump"
    /\ file = NoFile
    /\ inputs = CHOOSE in \in PipelineInputs :
                  in.versionBump /\ ~in.ota /\ ~in.fingerprint /\ ~in.submit
                  /\ in.platform = "ios"
    /\ rawConfig = NoObj
    /\ config = NoObj
    /\ fingerprintHash = Undefined
    /\ skipNativeBuild = FALSE
    /\ buildMode = Undefined
    /\ failedAt = ""
    /\ obs = NoObs
    /\ bumpArgs = NoObj
    /\ store = {}
    /\ completedNative = {}
    /\ profileLookup = NoObj
    /\ project \in Projects
    /\ bumpCall = NoBumpCall
    /\ compared = NoObj
    /\ fingerprintCall = NoObj
    /\ depCache = NoObj
    /\ jobs = NoObj

NextBump == BumpVersion

SpecBump == InitBump /\ [][NextBump]_vars

----------------------------------------------------------------------------
\* The build-number encoding of bumpFromGitTag applied to pairs of versions

MaxMajor == 2

\* minor and patch numbers: small, at the ceiling of 99, and beyond it
ComponentSamples == {0, 1, 50, 98, 99, 100}

SampleVersions ==
    {Version(major, minor, patch) :
       major \in 0..MaxMajor, minor \in ComponentSamples,
       patch \in ComponentSamples}

\* const buildNumber = major * 10000 + minor * 100 + patch, for two versions
\* and for the versions that bumpFromGitTag makes of them as latest tags
EncodeVersions ==
    /\ pc = "encode"
    /\ compared.buildNumbers = <<>>
    /\ compared' = [compared EXCEPT
                      !.buildNumbers = <<BuildNumberOf(compared.a),
                                         BuildNumberOf(compared.b)>>,
                      !.produced =
                          <<BuildNumberOf(NewVersion(compared.a)),
                            BuildNumberOf(NewVersion(compared.b))>>]
    /\ UNCHANGED <<pc, file, inputs, rawConfig, config, fingerprintHash,
                   skipNativeBuild, buildMode, failedAt, obs, bumpArgs,
                   store, completedNative, profileLookup, project, bumpCall,
                   fingerprintCall, depCache, jobs>>

InitEncoding ==
    /\ pc = "encode"
    /\ file = NoFile
    /\ inputs = CHOOSE in \in PipelineInputs :
                  in.versionBump /\ ~in.ota /\ ~in.fingerprint /\ ~in.submit
                  /\ in.platform = "ios"
    /\ rawConfig = NoObj
    /\ config = NoObj
    /\ fingerprintHash = Undefined
    /\ skipNativeBuild = FALSE
    /\ buildMode = Undefined
    /\ failedAt = ""
    /\ obs = NoObs
    /\ bumpArgs = NoObj
    /\ store = {}
    /\ completedNative = {}
    /\ profileLookup = NoObj
    /\ project = NoObj
    /\ bumpCall = NoObj
    /\ compared \in [a : SampleVersions, b : SampleVersions,
                     buildNumbers : {<<>>}, produced : {<<>>}]
    /\ fingerprintCall = NoObj
    /\ depCache = NoObj
    /\ jobs = NoObj

NextEncoding == EncodeVersions

SpecEncoding == InitEncoding /\ [][NextEncoding]_vars

----------------------------------------------------------------------------
\* Properties of the version bump (SpecBump)

\* the last call ran the app-json strategy
AppJsonCall ==
    /\ bumpCall.count > 0
    /\ EffectiveStrategy(project.workflow.strategy) = "app-json"

\* the config the last call read: app.json, or the dynamic config wrapped
\* in an expo key when there was no readable app.json and no source
ConfigRead ==
    LET before == bumpCall.before
    IN IF before.appJson.exists /\ before.appJson.wellFormed
       THEN before.appJson.json
       ELSE IF project.workflow.source = Undefined
               /\ before.dynamic.exists /\ before.dynamic.resolves
       THEN JObj([expo |-> before.dynamic.resolved])
       ELSE JUndefined

\* the platform's build field of the config read and the shared field that
\* stands in for it
PlatformRaw ==
    IF bumpCall.platform = "ios"
    THEN Get(Get(Get(ConfigRead, "expo"), "ios"), "buildNumber")
    ELSE Get(Get(Get(ConfigRead, "expo"), "android"), "versionCode")
FallbackRaw ==
    IF bumpCall.platform = "ios"
    THEN Get(Get(ConfigRead, "expo"), "buildNumber")
    ELSE Get(Get(ConfigRead, "expo"), "versionCode")

\* the existing build number by the fallback chain (undefined: none)
ExistingRaw ==
    IF PlatformRaw # JUndefined THEN PlatformRaw ELSE FallbackRaw

\* a JSON number, or a string of one or more digits
IsNumeric(raw) ==
    \/ raw.t = "number"
    \/ raw.t = "string" /\ raw.s # <<>>
         /\ \A i \in DOMAIN raw.s : IsDigit(raw.s[i])

NumericValue(raw) ==
    IF raw.t = "number" THEN raw.n ELSE DecimalValue(raw.s)

\* the value found in the written app.json at the field of the BumpResult
RereadField ==
    GetNested(project.appJson.json, FieldKeys(bumpCall.result.value.field))

\* C13: app-json round trip: when the platform's build field of the config
\* is absent (0) or holds a numeric v, bumpVersion returns previousValue = v
\* and newValue = v + 1 > previousValue, and re-reading BumpResult.field
\* from the written file yields exactly previousValue + 1.
C13_AppJsonRoundTrip ==
    (AppJsonCall /\ ConfigRead # JUndefined
       /\ (ExistingRaw = JUndefined \/ IsNumeric(ExistingRaw))) =>
      LET v == IF ExistingRaw = JUndefined THEN 0
               ELSE NumericValue(ExistingRaw)
      IN /\ ~bumpCall.result.threw
         /\ bumpCall.result.value.previousValue = v
         /\ bumpCall.result.value.newValue = v + 1
         /\ bumpCall.result.value.newValue
              > bumpCall.result.value.previousValue
         /\ project.appJson.exists /\ project.appJson.wellFormed
         /\ IsNumeric(RereadField)
         /\ NumericValue(RereadField)
              = bumpCall.result.value.previousValue + 1

C13_Witness ==
    /\ AppJsonCall
    /\ bumpCall.platform = "ios"
    /\ ExistingRaw = JStr(<<"5">>)
    /\ ~bumpCall.result.threw
    /\ bumpCall.result.value.newValue = 6
    /\ RereadField = JStr(<<"6">>)

\* C14: successive app-json bumps of one platform on one project yield
\* consecutive build numbers: each returned previousValue is the newValue
\* returned before it, each newValue is one more, and no value is returned
\* twice; also when the first call read a dynamic config and created
\* app.json, and when bumps of the other platform come in between.
C14_ConsecutiveBuildNumbers ==
    EffectiveStrategy(project.workflow.strategy) = "app-json" =>
      \A p \in Platforms :
        LET r == bumpCall.issued[p]
        IN /\ \A i \in 1..(Len(r) - 1) :
                /\ r[i + 1].previousValue = r[i].newValue
                /\ r[i + 1].newValue = r[i].newValue + 1
           /\ \A i, j \in 1..Len(r) :
                i # j => r[i].newValue # r[j].newValue

C14_Witness ==
    /\ EffectiveStrategy(project.workflow.strategy) = "app-json"
    /\ project.dynamic.exists /\ project.dynamic.resolves
    /\ Len(bumpCall.issued["ios"]) = 2
    /\ bumpCall.issued["ios"][1].previousValue = 7
    /\ bumpCall.issued["ios"][2].newValue = 9
    /\ Len(bumpCall.issued["android"]) = 1
    /\ bumpCall.platform = "ios"

\* C15: the app-json strategy reads the build number by the chain
\* expo.ios.buildNumber, else expo.buildNumber, else 0 on iOS and
\* expo.android.versionCode, else expo.versionCode, else 0 on Android;
\* it writes the new value back to the field it read (the platform's own
\* field when both are absent), and BumpResult.field names that field.
C15_FallbackChain ==
    (AppJsonCall /\ ~bumpCall.result.threw) =>
      LET ios == bumpCall.platform = "ios"
          own == IF ios THEN "expo.ios.buildNumber"
                 ELSE "expo.android.versionCode"
          shared == IF ios THEN "expo.buildNumber" ELSE "expo.versionCode"
          read == IF PlatformRaw # JUndefined THEN own
                  ELSE IF FallbackRaw # JUndefined THEN shared
                  ELSE own
          other == IF read = own THEN shared ELSE own
          result == bumpCall.result.value
      IN /\ result.field = read
         /\ result.previousValue =
              IF ExistingRaw = JUndefined THEN 0
              ELSE Number(ExistingRaw).n
         /\ Number(GetNested(project.appJson.json, FieldKeys(read)))
              = Finite(result.newValue)
         /\ GetNested(project.appJson.json, FieldKeys(other))
              = GetNested(ConfigRead, FieldKeys(other))

\* the shared field was read and written, the platform's own stays absent
C15_Witness ==
    /\ AppJsonCall
    /\ bumpCall.platform = "android"
    /\ ~bumpCall.result.threw
    /\ bumpCall.result.value.field = "expo.versionCode"
    /\ bumpCall.result.value.previousValue = 7
    /\ GetNested(project.appJson.json, <<"expo", "versionCode">>) = JNum(8)
    /\ GetNested(project.appJson.json, <<"expo", "android", "versionCode">>)
         = JUndefined

\* C16 as stated: under the app-json strategy, whenever the existing value
\* of the selected field is present but not numeric, bumpVersion fails with
\* an error naming that field and the raw value, and returns no BumpResult
\* computed from it.
C16_NonNumericRejected ==
    (AppJsonCall /\ ConfigRead # JUndefined /\ ExistingRaw # JUndefined
       /\ ~IsNumeric(ExistingRaw)) =>
      /\ bumpCall.result.threw
      /\ bumpCall.result.error.kind = "non-numeric value"
      /\ bumpCall.result.error.field =
           (IF PlatformRaw # JUndefined THEN PlatformField(bumpCall.platform)
            ELSE FallbackField(bumpCall.platform))
      /\ bumpCall.result.error.raw = TemplateText(ExistingRaw)
      /\ project.appJson = bumpCall.before.appJson

\* the last call wrote the declarative config file: the app-json strategy
\* whenever it returns, the other strategies when app.json could be read
ConfigWritten ==
    /\ bumpCall.count > 0
    /\ ~bumpCall.result.threw
    /\ \/ EffectiveStrategy(project.workflow.strategy) = "app-json"
       \/ /\ bumpCall.before.appJson.exists
          /\ bumpCall.before.appJson.wellFormed

\* C17: under each of the four strategies, whenever the declarative config
\* file is written, the build field of the BumpResult holds newValue as a
\* JSON string on iOS and as a JSON number on Android; the git-tag strategy
\* also sets expo.version to BumpResult.version.
C17_PlatformEncoding ==
    ConfigWritten =>
      /\ project.appJson.exists /\ project.appJson.wellFormed
      /\ RereadField.t =
           (IF bumpCall.platform = "ios" THEN "string" ELSE "number")
      /\ bumpCall.platform = "ios" =>
           RereadField.s = String(bumpCall.result.value.newValue)
      /\ bumpCall.platform = "android" =>
           RereadField.n = bumpCall.result.value.newValue
      /\ EffectiveStrategy(project.workflow.strategy) = "git-tag" =>
           /\ bumpCall.result.value.version.t = "string"
           /\ GetNested(project.appJson.json, <<"expo", "version">>)
                = bumpCall.result.value.version
      /\ EffectiveStrategy(project.workflow.strategy) # "git-tag" =>
           bumpCall.result.value.version = JUndefined

C17_Witness ==
    /\ ConfigWritten
    /\ EffectiveStrategy(project.workflow.strategy) = "git-tag"
    /\ bumpCall.platform = "ios"
    /\ RereadField = JStr(<<"1", "0", "2", "0", "4">>)
    /\ GetNested(project.appJson.json, <<"expo", "version">>)
         = JStr(<<"1", ".", "2", ".", "4">>)
    /\ GetNested(project.appJson.json, <<"expo", "android", "versionCode">>)
         .t = "number"

\* the key paths of a JSON value, the empty path for the value itself
RECURSIVE Paths(_)
Paths(v) ==
    {<<>>} \cup
    (IF v.t # "object" THEN {}
     ELSE UNION {{<<k>> \o p : p \in Paths(v.o[k])} : k \in DOMAIN v.o})

IsPrefix(p, q) == Len(p) <= Len(q) /\ SubSeq(q, 1, Len(p)) = p

\* the paths a write may change: the target field, expo.version under
\* git-tag, and the objects that contain them
TouchedPaths ==
    {p \in Paths(bumpCall.before.appJson.json) :
       \/ IsPrefix(p, FieldKeys(bumpCall.result.value.field))
       \/ /\ EffectiveStrategy(project.workflow.strategy) = "git-tag"
          /\ IsPrefix(p, <<"expo", "version">>)}

\* C18: a write of the declarative config file changes only the targeted
\* build-number field (and expo.version under git-tag): every other key
\* that was in the file, at the top level or nested, siblings of the
\* target included, is still there with the same value.
C18_WriteFrame ==
    (ConfigWritten /\ bumpCall.before.appJson.exists
       /\ bumpCall.before.appJson.wellFormed) =>
      \A p \in Paths(bumpCall.before.appJson.json) \ TouchedPaths :
        /\ p \in Paths(project.appJson.json)
        /\ GetNested(project.appJson.json, p)
             = GetNested(bumpCall.before.appJson.json, p)

C18_Witness ==
    /\ ConfigWritten
    /\ bumpCall.before.appJson = TestAppJson
    /\ EffectiveStrategy(project.workflow.strategy) = "git-tag"
    /\ project.appJson # bumpCall.before.appJson
    /\ <<"expo", "ios", "supportsTablet">>
         \in Paths(bumpCall.before.appJson.json) \ TouchedPaths
    /\ <<"private">> \in Paths(project.appJson.json)

\* the last call ran the git-tag strategy
GitTagCall ==
    /\ bumpCall.count > 0
    /\ EffectiveStrategy(project.workflow.strategy) = "git-tag"

VersionBefore(a, b) ==
    \/ a.major < b.major
    \/ a.major = b.major /\ a.minor < b.minor
    \/ a.major = b.major /\ a.minor = b.minor /\ a.patch < b.patch

\* C20: for versions whose minor and patch are at most 99 the encoding
\* major * 10000 + minor * 100 + patch is monotonically comparable:
\* distinct versions get distinct build numbers and the build numbers are
\* ordered as the (major, minor, patch) triples are.
C20_EncodingMonotone ==
    (compared # NoObj /\ compared.buildNumbers # <<>>
       /\ compared.a.minor <= 99 /\ compared.a.patch <= 99
       /\ compared.b.minor <= 99 /\ compared.b.patch <= 99) =>
      /\ (compared.a # compared.b)
           => compared.buildNumbers[1] # compared.buildNumbers[2]
      /\ VersionBefore(compared.a, compared.b)
           <=> compared.buildNumbers[1] < compared.buildNumbers[2]

\* 1.99.99 and 2.0.0: the greatest minor and patch against the next major
C20_Witness ==
    /\ compared # NoObj
    /\ compared.a = Version(1, 99, 99)
    /\ compared.b = Version(2, 0, 0)
    /\ compared.buildNumbers = <<19999, 20000>>

\* the last call returned a BumpResult
BumpSucceeded ==
    /\ bumpCall.count > 0
    /\ ~bumpCall.result.threw

\* C21 as stated: after bumpVersion returns successfully under any of the
\* four strategies every representation that exists agrees on the new build
\* number: the field of the declarative config equals newValue, on iOS every
\* ios/<dir>/Info.plist outside Pods and hidden directories has
\* CFBundleVersion = String(newValue), on Android android/app/build.gradle
\* has versionCode = newValue.
C21_RepresentationsInSync ==
    BumpSucceeded =>
      /\ project.appJson.exists =>
           /\ project.appJson.wellFormed
           /\ IsNumeric(RereadField)
           /\ NumericValue(RereadField) = bumpCall.result.value.newValue
      /\ bumpCall.platform = "ios" =>
           \A d \in DOMAIN project.infoPlists \ {"Pods", ".derivedData"} :
             project.infoPlists[d].CFBundleVersion
               = String(bumpCall.result.value.newValue)
      /\ (bumpCall.platform = "android" /\ project.buildGradle.exists) =>
           project.buildGradle.versionCode
             = JNum(bumpCall.result.value.newValue)

\* C22: expected absences are never fatal for the git-tag strategy:
\* bumpVersion returns a BumpResult when no tag matches (version 1.0.0,
\* previousValue 0), when the declarative config file is missing (no file is
\* written, the result still comes from the tag) and when the native
\* project files are missing (none is created).
C22_GitTagAbsencesNotFatal ==
    GitTagCall =>
      /\ ~bumpCall.result.threw
      /\ bumpCall.env.describe.threw =>
           /\ bumpCall.result.value.version = JStr(<<"1", ".", "0", ".", "0">>)
           /\ bumpCall.result.value.previousValue = 0
           /\ bumpCall.result.value.newValue = 10000
      /\ ~bumpCall.before.appJson.exists =>
           /\ ~project.appJson.exists
           /\ (~bumpCall.env.describe.threw
               /\ bumpCall.env.describe.value
                    = <<"v", "1", ".", "2", ".", "3", "\n">>) =>
                /\ bumpCall.result.value.version
                     = JStr(<<"1", ".", "2", ".", "4">>)
                /\ bumpCall.result.value.newValue = 10204
                /\ bumpCall.result.value.previousValue = 10203
      /\ bumpCall.before.infoPlists = <<>> => project.infoPlists = <<>>
      /\ ~bumpCall.before.buildGradle.exists => ~project.buildGradle.exists

\* no tag, no app.json and no native project at once
C22_Witness ==
    /\ GitTagCall
    /\ bumpCall.env.describe.threw
    /\ ~bumpCall.before.appJson.exists
    /\ bumpCall.before.infoPlists = <<>>
    /\ ~bumpCall.before.buildGradle.exists
    /\ ~bumpCall.result.threw
    /\ bumpCall.result.value.newValue = 10000
    /\ project = bumpCall.before

----------------------------------------------------------------------------
\* computeFingerprint on each output of the tool

ComputeFingerprint ==
    /\ pc = "fingerprint"
    /\ fingerprintCall.outcome = NoObj
    /\ fingerprintCall' =
         [fingerprintCall EXCEPT
            !.outcome = computeFingerprint(fingerprintCall.run.stdout)]
    /\ UNCHANGED <<pc, file, inputs, rawConfig, config, fingerprintHash,
                   skipNativeBuild, buildMode, failedAt, obs, bumpArgs,
                   store, completedNative, profileLookup, project, bumpCall,
                   compared, depCache, jobs>>

InitFingerprint ==
    /\ pc = "fingerprint"
    /\ file = NoFile
    /\ inputs = CHOOSE in \in PipelineInputs :
                  in.versionBump /\ ~in.ota /\ ~in.fingerprint /\ ~in.submit
                  /\ in.platform = "ios"
    /\ rawConfig = NoObj
    /\ config = NoObj
    /\ fingerprintHash = Undefined
    /\ skipNativeBuild = FALSE
    /\ buildMode = Undefined
    /\ failedAt = ""
    /\ obs = NoObs
    /\ bumpArgs = NoObj
    /\ store = {}
    /\ completedNative = {}
    /\ profileLookup = NoObj
    /\ project = NoObj
    /\ bumpCall = NoObj
    /\ compared = NoObj
    /\ fingerprintCall \in [platform : Platforms, run : ToolRuns,
                            outcome : {NoObj}]
    /\ depCache = NoObj
    /\ jobs = NoObj

NextFingerprint == ComputeFingerprint

SpecFingerprint == InitFingerprint /\ [][NextFingerprint]_vars

----------------------------------------------------------------------------
\* Properties of computeFingerprint (SpecFingerprint)

\* computeFingerprint has returned or thrown
FingerprintCalled ==
    /\ fingerprintCall # NoObj
    /\ fingerprintCall.outcome # NoObj

\* the hash field of the printed document (undefined when the document is
\* no object or has no such key)
PrintedHash ==
    IF fingerprintCall.run.document.t = "object"
       /\ "hash" \in DOMAIN fingerprintCall.run.document.o
    THEN fingerprintCall.run.document.o.hash ELSE JUndefined
PrintedSources ==
    IF fingerprintCall.run.document.t = "object"
       /\ "sources" \in DOMAIN fingerprintCall.run.document.o
    THEN fingerprintCall.run.document.o.sources ELSE JUndefined

\* C23 as stated: computeFingerprint has exactly three outcomes: stdout that
\* is no JSON fails with the parse error that carries the first 200
\* characters of the raw output; every JSON output whose hash is missing or
\* not a string fails with the missing-or-non-string-hash error; every
\* other output returns the tool's hash and the length of sources (0 when
\* sources is no array).
C23_ThreeOutcomes ==
    FingerprintCalled =>
      LET outcome == fingerprintCall.outcome
          stdout == fingerprintCall.run.stdout
      IN IF fingerprintCall.run.document = NoObj
         THEN /\ outcome.threw
              /\ outcome.error.kind = "Failed to parse"
              /\ outcome.error.got
                   = [i \in 1..(IF Len(stdout) < 200 THEN Len(stdout)
                                ELSE 200) |-> stdout[i]]
         ELSE IF PrintedHash.t # "string"
         THEN /\ outcome.threw
              /\ outcome.error.kind = "invalid result"
         ELSE /\ ~outcome.threw
              /\ outcome.value.hash = Text(PrintedHash.s)
              /\ outcome.value.sourceCount =
                   (IF PrintedSources.t = "array" THEN Len(PrintedSources.a)
                    ELSE 0)

----------------------------------------------------------------------------
\* Properties of the order of the steps of run() (Spec)

\* mergeActionInputs has returned the ResolvedConfig
ConfigResolved == config # NoObj

\* restoreFingerprintCache has returned and skipNativeBuild is settled
FingerprintDecided == obs.cached # "none"

\* bumpVersion was called by the build pipeline and returned
BumpCompleted ==
    /\ bumpArgs # NoObj
    /\ pc # "bump"
    /\ failedAt # "bumpVersion"

\* the build pipeline has gone past its version bump step into prebuild,
\* credentials and the native build
NativeBuildStarted ==
    \/ pc \in {"submit", "savecaches", "savefp"}
    \/ pc = "done" /\ obs.ranNative
    \/ pc = "failed" /\ failedAt \in {"build", "submit"}

\* runOtaPipeline has run expo export and returned
OtaExportDone == pc = "done" /\ obs.ranOta

\* C24 as stated: in every run config resolution completes before the
\* fingerprint decision, the fingerprint decision before any version bump,
\* and with version bump enabled the bump completes before the build step
\* of the run starts, be it the native build or the OTA export.
C24_BumpBeforeEitherBuild ==
    /\ (obs.fingerprintComputed \/ FingerprintDecided) => ConfigResolved
    /\ bumpArgs # NoObj =>
         /\ ConfigResolved
         /\ NeedsFingerprintCheck(config) => FingerprintDecided
    /\ (ConfigResolved /\ config.versionBump
          /\ (NativeBuildStarted \/ OtaExportDone)) => BumpCompleted

\* C24 amended: config resolution completes before the fingerprint
\* decision and the fingerprint decision before any version bump; on the
\* native route with version bump enabled the bump completes before
\* prebuild and the native build start; a run on the OTA route makes no
\* version bump at all, whatever the version-bump flag.
C24_BumpBeforeNativeBuild ==
    /\ (pc \in {"restore", "route"} \/ obs.fingerprintComputed
          \/ FingerprintDecided) => ConfigResolved
    /\ bumpArgs # NoObj =>
         /\ ConfigResolved
         /\ config.versionBump
         /\ NeedsFingerprintCheck(config) => FingerprintDecided
         /\ obs.ranNative /\ ~obs.ranOta
    /\ (ConfigResolved /\ config.versionBump /\ NativeBuildStarted) =>
         BumpCompleted
    /\ (ConfigResolved /\ ~config.versionBump) => bumpArgs = NoObj
    /\ obs.ranOta => bumpArgs = NoObj

\* a fingerprint miss, then the bump, then the native build
C24_Witness ==
    /\ pc = "done"
    /\ obs.ranNative
    /\ obs.cached = "false"
    /\ config.versionBump
    /\ BumpCompleted
    /\ NativeBuildStarted

\* C30: every run that completes successfully has reported a build-mode
\* value that agrees with the pipeline that ran: "ota" when the OTA
\* pipeline ran, fingerprint-routed or explicitly requested, "native" when
\* the native pipeline ran with fingerprinting enabled, "full" when it ran
\* with fingerprinting disabled.
C30_BuildModeMatchesRoute ==
    pc = "done" =>
        /\ buildMode \in {"ota", "native", "full"}
        /\ obs.ranOta => buildMode = "ota"
        /\ (obs.ranNative /\ config.fingerprint) => buildMode = "native"
        /\ (obs.ranNative /\ ~config.fingerprint) => buildMode = "full"

\* the same with the explicitly requested OTA runs left out
BuildModeMatchesRouteUnlessRequested ==
    (pc = "done" /\ ~config.ota) => C30_BuildModeMatchesRoute

----------------------------------------------------------------------------
\* setup/cache.ts: the dependency caches of one job (restoreCaches in
\* runSetup, saveCaches after the native build pipeline)

\* sha256 hex digests of lock files, as their first 12 characters and the rest
FileHash(head, tail) == [head |-> head, tail |-> tail]

HashText(h) == h.head \o h.tail

\* hash.slice(0, 12)
HashPrefix(h) == h.head

LockHashA == FileHash("0a1b2c3d4e5f", "a7")

LockHashB == FileHash("9f8e7d6c5b4a", "3c")

\* the lock files of a project: a digest, or NoObj for a file that is absent
ProjectFiles(lockfile, gradle, podfileLock, gemfileLock) ==
    [lockfile |-> lockfile, gradle |-> gradle, podfileLock |-> podfileLock,
     gemfileLock |-> gemfileLock]

CacheProjects ==
    { [platform |-> "android",
       files |-> ProjectFiles(LockHashA, LockHashB, NoObj, NoObj)],
      [platform |-> "android",
       files |-> ProjectFiles(NoObj, NoObj, NoObj, LockHashA)],
      [platform |-> "ios",
       files |-> ProjectFiles(LockHashA, NoObj, LockHashB, NoObj)],
      [platform |-> "ios",
       files |-> ProjectFiles(NoObj, NoObj, NoObj, NoObj)] }

CacheDescriptor(name, key, paths) ==
    [name |-> name, key |-> key, paths |-> paths]

\* descriptors.push(...) under a condition
PushIf(cond, desc) == IF cond THEN <<desc>> ELSE <<>>

buildCacheDescriptors(platform, files) ==
    PushIf(files.lockfile # NoObj,
           CacheDescriptor("node_modules",
                           "node-" \o platform \o "-"
                               \o HashText(files.lockfile),
                           <<"node_modules">>))
    \o PushIf(platform = "android" /\ files.gradle # NoObj,
              CacheDescriptor("Gradle",
                              "gradle-" \o HashText(files.gradle),
                              <<"~/.gradle/caches">>))
    \o PushIf(platform = "ios" /\ files.podfileLock # NoObj,
              CacheDescriptor("CocoaPods",
                              "pods-" \o HashText(files.podfileLock),
                              <<"ios/Pods">>))
    \o PushIf(platform = "ios",
              CacheDescriptor("ccache", "ccache-" \o platform \o "-v2",
                              <<"~/Library/Caches/ccache">>))
    \o PushIf(platform = "ios",
              CacheDescriptor("DerivedData",
                              "deriveddata-"
                                  \o (IF files.podfileLock # NoObj
                                      THEN HashPrefix(files.podfileLock)
                                      ELSE "nopods"),
                              <<".derivedData">>))
    \o PushIf(files.gemfileLock # NoObj,
              CacheDescriptor("Ruby gems",
                              "gems-" \o platform \o "-"
                                  \o HashText(files.gemfileLock),
                              <<"vendor/bundle">>))

\* how a call of cache.restoreCache can settle
RestoreOutcomes == {"hit", "miss", "rejected"}

\* how a call of cache.saveCache can settle
SaveOutcomes == {"saved", "rejected"}

\* the restore callback after its await: if (hit) restoredKeys.add(desc.key)
AfterRestore(restoredKeys, key, outcome) ==
    IF outcome = "hit" THEN restoredKeys \cup {key} ELSE restoredKeys

\* variant: the save callback never looks at restoredKeys
SkipsRestored_never(restoredKeys, desc) == FALSE

\* the save callback: if (restoredKeys.has(desc.key)) return
SkipsRestored(restoredKeys, desc) == desc.key \in restoredKeys

\* desc.paths.some((p) => fs.existsSync(p))
PathExists(disk, desc) == \E i \in DOMAIN desc.paths : desc.paths[i] \in disk

\* the save callback up to its await of cache.saveCache
SaveCallback(restoredKeys, disk, desc) ==
    IF SkipsRestored(restoredKeys, desc) THEN "skipped: restored"
    ELSE IF ~PathExists(disk, desc) THEN "skipped: no path"
    ELSE "pending"

\* variant: Promise.all, which rejects with the first rejection
AllSettled_all(statuses) ==
    [settled |-> \/ \A i \in DOMAIN statuses : statuses[i] # "pending"
                 \/ \E i \in DOMAIN statuses : statuses[i] = "rejected",
     rejected |-> \E i \in DOMAIN statuses : statuses[i] = "rejected"]

\* await Promise.allSettled(...): waits for every callback, never rejects;
\* the loop over the results only logs
AllSettled(statuses) ==
    [settled |-> \A i \in DOMAIN statuses : statuses[i] # "pending",
     rejected |-> FALSE]

\* restoreCaches up to its await: one cache.restoreCache call per descriptor
RestoreCachesCalled ==
    /\ pc = "caches"
    /\ depCache.pc = "start"
    /\ depCache' =
         [depCache EXCEPT
            !.pc = "restoring",
            !.descriptors = buildCacheDescriptors(depCache.platform,
                                                  depCache.files),
            !.restores = [i \in DOMAIN buildCacheDescriptors(
                                           depCache.platform, depCache.files)
                            |-> "pending"]]
    /\ UNCHANGED <<file, inputs, rawConfig, config, fingerprintHash,
                   skipNativeBuild, buildMode, pc, failedAt, obs, bumpArgs,
                   store, completedNative, profileLookup, project, bumpCall,
                   compared, fingerprintCall, jobs>>

\* one cache.restoreCache call settles and its callback runs to its end
RestoreCallbackSettled ==
    /\ depCache.pc \in {"restoring", "restored", "failed"}
    /\ \E i \in DOMAIN depCache.restores, outcome \in RestoreOutcomes :
         /\ depCache.restores[i] = "pending"
         /\ depCache' =
              [depCache EXCEPT
                 !.restores[i] = outcome,
                 !.restoredKeys =
                     AfterRestore(depCache.restoredKeys,
                                  depCache.descriptors[i].key, outcome)]
    /\ UNCHANGED <<file, inputs, rawConfig, config, fingerprintHash,
                   skipNativeBuild, buildMode, pc, failedAt, obs, bumpArgs,
                   store, completedNative, profileLookup, project, bumpCall,
                   compared, fingerprintCall, jobs>>

\* the await of restoreCaches ends; runSetup and the build go on
RestoreCachesSettled ==
    /\ depCache.pc = "restoring"
    /\ AllSettled(depCache.restores).settled
    /\ depCache' =
         [depCache EXCEPT
            !.pc = IF AllSettled(depCache.restores).rejected
                   THEN "failed" ELSE "restored"]
    /\ UNCHANGED <<file, inputs, rawConfig, config, fingerprintHash,
                   skipNativeBuild, buildMode, pc, failedAt, obs, bumpArgs,
                   store, completedNative, profileLookup, project, bumpCall,
                   compared, fingerprintCall, jobs>>

\* the lock file after the dependencies were installed: the same digest or
\* a new one
FilesAfterInstall(files, lockfile) ==
    [files EXCEPT !.lockfile = IF @ = NoObj THEN NoObj ELSE lockfile]

DescribedPaths(descriptors) ==
    { descriptors[i].paths[j] :
        i \in DOMAIN descriptors, j \in {1} }

\* descriptors.map(async (desc) => ...): every save callback runs up to its
\* await, in the order of the descriptors
SaveCallbacksStarted(dc, disk, files, descriptors) ==
    [dc EXCEPT
       !.pc = "saving",
       !.files = files,
       !.disk = disk,
       !.saveDescriptors = descriptors,
       !.saves = [i \in DOMAIN descriptors |->
                    SaveCallback(dc.restoredKeys, disk, descriptors[i])]]

\* saveCaches up to its await, after the build has left some of the cached
\* directories on disk: the descriptors are built again
SaveCachesCalled ==
    /\ depCache.pc = "restored"
    /\ \E lockfile \in IF depCache.files.lockfile = NoObj THEN {NoObj}
                        ELSE {LockHashA, LockHashB} :
         \E disk \in SUBSET DescribedPaths(
                         buildCacheDescriptors(
                             depCache.platform,
                             FilesAfterInstall(depCache.files, lockfile))) :
           depCache' =
               SaveCallbacksStarted(
                   depCache, disk,
                   FilesAfterInstall(depCache.files, lockfile),
                   buildCacheDescriptors(
                       depCache.platform,
                       FilesAfterInstall(depCache.files, lockfile)))
    /\ UNCHANGED <<file, inputs, rawConfig, config, fingerprintHash,
                   skipNativeBuild, buildMode, pc, failedAt, obs, bumpArgs,
                   store, completedNative, profileLookup, project, bumpCall,
                   compared, fingerprintCall, jobs>>

\* one cache.saveCache call settles
SaveCallbackSettled ==
    /\ depCache.pc \in {"saving", "saved", "failed"}
    /\ \E i \in DOMAIN depCache.saves, outcome \in SaveOutcomes :
         /\ depCache.saves[i] = "pending"
         /\ depCache' = [depCache EXCEPT !.saves[i] = outcome]
    /\ UNCHANGED <<file, inputs, rawConfig, config, fingerprintHash,
                   skipNativeBuild, buildMode, pc, failedAt, obs, bumpArgs,
                   store, completedNative, profileLookup, project, bumpCall,
                   compared, fingerprintCall, jobs>>

\* the await of saveCaches ends and run() goes on
SaveCachesSettled ==
    /\ depCache.pc = "saving"
    /\ AllSettled(depCache.saves).settled
    /\ depCache' =
         [depCache EXCEPT
            !.pc = IF AllSettled(depCache.saves).rejected
                   THEN "failed" ELSE "saved"]
    /\ UNCHANGED <<file, inputs, rawConfig, config, fingerprintHash,
                   skipNativeBuild, buildMode, pc, failedAt, obs, bumpArgs,
                   store, completedNative, profileLookup, project, bumpCall,
                   compared, fingerprintCall, jobs>>

InitCaches ==
    /\ pc = "caches"
    /\ file = NoFile
    /\ inputs = CHOOSE in \in PipelineInputs :
                  in.versionBump /\ ~in.ota /\ ~in.fingerprint /\ ~in.submit
                  /\ in.platform = "ios"
    /\ rawConfig = NoObj
    /\ config = NoObj
    /\ fingerprintHash = Undefined
    /\ skipNativeBuild = FALSE
    /\ buildMode = Undefined
    /\ failedAt = ""
    /\ obs = NoObs
    /\ bumpArgs = NoObj
    /\ store = {}
    /\ completedNative = {}
    /\ profileLookup = NoObj
    /\ project = NoObj
    /\ bumpCall = NoObj
    /\ compared = NoObj
    /\ fingerprintCall = NoObj
    /\ jobs = NoObj
    /\ depCache \in
         { [pc |-> "start", platform |-> p.platform, files |-> p.files,
            descriptors |-> <<>>, restores |-> <<>>, restoredKeys |-> {},
            disk |-> {}, saveDescriptors |-> <<>>, saves |-> <<>>] :
           p \in CacheProjects }

NextCaches ==
    \/ RestoreCachesCalled
    \/ RestoreCallbackSettled
    \/ RestoreCachesSettled
    \/ SaveCachesCalled
    \/ SaveCallbackSettled
    \/ SaveCachesSettled

SpecCaches == InitCaches /\ [][NextCaches]_vars

\* the store calls of a job settle sooner or later, and the event loop runs
\* every continuation that is ready
SpecCachesLive == SpecCaches /\ WF_vars(NextCaches)

----------------------------------------------------------------------------
\* Properties of restoreCaches and saveCaches (SpecCaches)

\* the keys whose cache.restoreCache call came back with a hit
HitKeys ==
    { depCache.descriptors[i].key :
        i \in { j \in DOMAIN depCache.restores :
                  depCache.restores[j] = "hit" } }

\* the keys for which saveCaches called cache.saveCache
SaveCalls ==
    { depCache.saveDescriptors[i].key :
        i \in { j \in DOMAIN depCache.saves :
                  depCache.saves[j] \in {"pending", "saved", "rejected"} } }

RestoreCachesResolved == depCache.pc \in {"restored", "saving", "saved"}

\* no rejected restore or save stops the job, every restore is issued at
\* once, and restoreCaches returns only after every restore has settled,
\* with every hit recorded
CachesIsolated ==
    /\ depCache.pc # "failed"
    /\ depCache.pc # "start" =>
         DOMAIN depCache.restores = DOMAIN depCache.descriptors
    /\ RestoreCachesResolved =>
         /\ \A i \in DOMAIN depCache.restores :
              depCache.restores[i] # "pending"
         /\ HitKeys \subseteq depCache.restoredKeys
    /\ depCache.pc = "saved" =>
         \A i \in DOMAIN depCache.saves : depCache.saves[i] # "pending"

C26_SavesExactlyTheMisses ==
    depCache.pc \in {"saving", "saved"} =>
        /\ SaveCalls \cap HitKeys = {}
        /\ \A i \in DOMAIN depCache.saveDescriptors :
             depCache.saveDescriptors[i].key \in SaveCalls
               <=> /\ depCache.saveDescriptors[i].key \notin HitKeys
                   /\ PathExists(depCache.disk, depCache.saveDescriptors[i])
        /\ \A i \in DOMAIN depCache.restores :
             ( /\ depCache.restores[i] \in {"miss", "rejected"}
               /\ \E j \in DOMAIN depCache.saveDescriptors :
                    /\ depCache.saveDescriptors[j] = depCache.descriptors[i]
                    /\ PathExists(depCache.disk, depCache.descriptors[i]) )
             => depCache.descriptors[i].key \in SaveCalls

\* a hit, a miss and a rejected restore side by side: the hit is skipped
\* though its path exists, the other two are saved
C26_Witness ==
    /\ depCache.pc = "saved"
    /\ \E h, m, r \in DOMAIN depCache.restores :
         /\ depCache.restores[h] = "hit"
         /\ depCache.restores[m] = "miss"
         /\ depCache.restores[r] = "rejected"
         /\ PathExists(depCache.disk, depCache.descriptors[h])
         /\ depCache.descriptors[h].key \notin SaveCalls
         /\ depCache.descriptors[m].key \in SaveCalls
         /\ depCache.descriptors[r].key \in SaveCalls

----------------------------------------------------------------------------
\* index.ts: jobs of several workflow runs, each its own process running
\* run() with fingerprinting enabled, against the one cache store

JobIds == {"job-a", "job-b", "job-c"}

\* the profiles and source trees the jobs are started with
JobProfiles == {"production", "staging"}

JobHashes == {HashList[1], HashList[2]}

\* what run() reads of the ResolvedConfig of a job between the fingerprint
\* check and the fingerprint save
JobConfig(platform, profile) ==
    [platform |-> platform, profile |-> profile, fingerprint |-> TRUE,
     ota |-> FALSE]

\* a job before its fingerprint check
NewJob(platform, profile, hash) ==
    [pc |-> "restore", config |-> JobConfig(platform, profile),
     fingerprintHash |-> hash, skipNativeBuild |-> FALSE,
     buildMode |-> Undefined, cached |-> "none", nativeReturned |-> FALSE,
     saved |-> "none", failedAt |-> ""]

\* how the cache.saveCache call of a job ended
SaveResult(st, key, available) ==
    IF ~saveCache(st, key, available).rejected THEN "stored"
    ELSE IF available THEN "key exists" ELSE "unreachable"

\* const cached = await restoreFingerprintCache(config.platform, fp.hash)
\* and the branches on it
JobRestored(job, cached) ==
    [job EXCEPT
       !.pc = StepNext(~cached.threw, "route"),
       !.failedAt = IF cached.threw THEN "restoreFingerprintCache" ELSE @,
       !.skipNativeBuild = (~cached.threw /\ cached.value),
       !.buildMode = IF cached.threw THEN @
                     ELSE IF cached.value THEN "ota" ELSE "native",
       !.cached = IF cached.threw THEN "none" ELSE BoolStr(cached.value)]

JobFingerprintRestore ==
    /\ pc = "jobs"
    /\ \E j \in JobIds, available \in BOOLEAN :
         /\ jobs[j].pc = "restore"
         /\ jobs' = [jobs EXCEPT ![j] =
                       JobRestored(jobs[j],
                                   restoreFingerprintCache(
                                       store, jobs[j].config.platform,
                                       jobs[j].fingerprintHash, available))]
    /\ UNCHANGED <<file, inputs, rawConfig, config, fingerprintHash,
                   skipNativeBuild, buildMode, pc, failedAt, obs, bumpArgs,
                   store, completedNative, profileLookup, project, bumpCall,
                   compared, fingerprintCall, depCache>>

\* if (config.ota || skipNativeBuild) ... else ...
JobRouteDecision ==
    /\ \E j \in JobIds :
         /\ jobs[j].pc = "route"
         /\ jobs' = [jobs EXCEPT
                       ![j].pc = IF TakesOtaRoute(jobs[j].config,
                                                  jobs[j].skipNativeBuild)
                                 THEN "ota" ELSE "native",
                       ![j].buildMode =
                           IF TakesOtaRoute(jobs[j].config,
                                            jobs[j].skipNativeBuild)
                           THEN @ ELSE NativeBuildMode(jobs[j].config)]
    /\ UNCHANGED <<file, inputs, rawConfig, config, fingerprintHash,
                   skipNativeBuild, buildMode, pc, failedAt, obs, bumpArgs,
                   store, completedNative, profileLookup, project, bumpCall,
                   compared, fingerprintCall, depCache>>

\* await runOtaPipeline(config, projectDir)
JobOtaPipeline ==
    /\ \E j \in JobIds, ok \in BOOLEAN :
         /\ jobs[j].pc = "ota"
         /\ jobs' = [jobs EXCEPT
                       ![j].pc = StepNext(ok, "done"),
                       ![j].failedAt = IF ok THEN @ ELSE "runOtaPipeline"]
    /\ UNCHANGED <<file, inputs, rawConfig, config, fingerprintHash,
                   skipNativeBuild, buildMode, pc, failedAt, obs, bumpArgs,
                   store, completedNative, profileLookup, project, bumpCall,
                   compared, fingerprintCall, depCache>>

\* runSetup, the build pipeline of the platform and saveCaches
JobNativePipeline ==
    /\ \E j \in JobIds, ok \in BOOLEAN :
         /\ jobs[j].pc = "native"
         /\ jobs' = [jobs EXCEPT
                       ![j].pc = StepNext(ok, "savefp"),
                       ![j].nativeReturned = ok,
                       ![j].failedAt = IF ok THEN @ ELSE "build"]
    /\ UNCHANGED <<file, inputs, rawConfig, config, fingerprintHash,
                   skipNativeBuild, buildMode, pc, failedAt, obs, bumpArgs,
                   store, completedNative, profileLookup, project, bumpCall,
                   compared, fingerprintCall, depCache>>

\* the job after await saveFingerprintCache(config.platform, fingerprintHash)
JobSaved(job, r, result) ==
    [job EXCEPT
       !.pc = StepNext(~r.threw, "done"),
       !.failedAt = IF r.threw THEN "saveFingerprintCache" ELSE @,
       !.saved = result]

JobSaveFingerprintCache ==
    /\ \E j \in JobIds, available \in BOOLEAN :
         /\ jobs[j].pc = "savefp"
         /\ SavesFingerprint(jobs[j].fingerprintHash)
         /\ store' = saveFingerprintCache(store, jobs[j].config.platform,
                                          jobs[j].fingerprintHash,
                                          available).store
         /\ jobs' = [jobs EXCEPT ![j] =
                       JobSaved(jobs[j],
                                saveFingerprintCache(
                                    store, jobs[j].config.platform,
                                    jobs[j].fingerprintHash, available),
                                SaveResult(
                                    store,
                                    cacheKey(jobs[j].config.platform,
                                             jobs[j].fingerprintHash),
                                    available))]
    /\ UNCHANGED <<file, inputs, rawConfig, config, fingerprintHash,
                   skipNativeBuild, buildMode, pc, failedAt, obs, bumpArgs,
                   completedNative, profileLookup, project, bumpCall,
                   compared, fingerprintCall, depCache>>

InitJobs ==
    /\ pc = "jobs"
    /\ file = NoFile
    /\ inputs = CHOOSE in \in PipelineInputs :
                  in.versionBump /\ ~in.ota /\ ~in.fingerprint /\ ~in.submit
                  /\ in.platform = "ios"
    /\ rawConfig = NoObj
    /\ config = NoObj
    /\ fingerprintHash = Undefined
    /\ skipNativeBuild = FALSE
    /\ buildMode = Undefined
    /\ failedAt = ""
    /\ obs = NoObs
    /\ bumpArgs = NoObj
    /\ store = {}
    /\ completedNative = {}
    /\ profileLookup = NoObj
    /\ project = NoObj
    /\ bumpCall = NoObj
    /\ compared = NoObj
    /\ fingerprintCall = NoObj
    /\ depCache = NoObj
    /\ jobs \in [JobIds -> { NewJob(platform, profile, hash) :
                               platform \in Platforms,
                               profile \in JobProfiles,
                               hash \in JobHashes }]

NextJobs ==
    \/ JobFingerprintRestore
    \/ JobRouteDecision
    \/ JobOtaPipeline
    \/ JobNativePipeline
    \/ JobSaveFingerprintCache

SpecJobs == InitJobs /\ [][NextJobs]_vars

----------------------------------------------------------------------------
\* Properties of jobs that share the cache store (SpecJobs)

JobKey(j) == cacheKey(jobs[j].config.platform, jobs[j].fingerprintHash)

\* a native build of job k has completed for the platform and source tree
\* of job j
BuiltSameFingerprint(j, k) ==
    /\ k # j
    /\ jobs[k].nativeReturned
    /\ jobs[k].config.platform = jobs[j].config.platform
    /\ jobs[k].fingerprintHash = jobs[j].fingerprintHash

\* C27: a run with build profile P is fingerprint-routed to OTA only if an
\* earlier successful native build was made with the same profile P, the
\* same platform and the same hash.
C27_OtaOnlyAfterSameProfileBuild ==
    \A j \in JobIds :
        jobs[j].skipNativeBuild =>
            \E k \in JobIds :
                /\ BuiltSameFingerprint(j, k)
                /\ jobs[k].config.profile = jobs[j].config.profile

\* the same without the profile: some native build of the platform and
\* hash came first
OtaOnlyAfterSameFingerprintBuild ==
    \A j \in JobIds :
        jobs[j].skipNativeBuild => \E k \in JobIds : BuiltSameFingerprint(j, k)

\* C28: jobs of one platform and fingerprint that run before the key is
\* stored all observe a miss and take the native route; the save that
\* loses gets the key-already-exists error and fails no job; once a save
\* of the key has reached the store the store holds the entry and a later
\* run with that fingerprint hits.
C28_ConcurrentSavesBenign ==
    \A j \in JobIds :
        /\ JobKey(j) \notin store =>
             /\ jobs[j].cached # "true"
             /\ ~jobs[j].skipNativeBuild
             /\ jobs[j].pc # "ota"
             /\ jobs[j].pc \in {"native", "savefp", "done"} =>
                  jobs[j].buildMode = "native"
        /\ jobs[j].failedAt # "saveFingerprintCache"
        /\ jobs[j].saved # "none" => jobs[j].pc = "done"
        /\ jobs[j].saved \in {"stored", "key exists"} =>
             /\ JobKey(j) \in store
             /\ restoreFingerprintCache(store, jobs[j].config.platform,
                                        jobs[j].fingerprintHash, TRUE)
                  = Returned(TRUE)
        /\ (jobs[j].saved = "key exists" /\ jobs[j].cached = "false") =>
             \E k \in JobIds \ {j} :
                 /\ JobKey(k) = JobKey(j)
                 /\ jobs[k].saved = "stored"

\* two jobs have both missed and built, one save stored the key and the
\* other lost, both are done, and the third job has hit afterwards
C28_Witness ==
    \E j, k, l \in JobIds :
        /\ j # k /\ l # j /\ l # k
        /\ JobKey(j) = JobKey(k) /\ JobKey(l) = JobKey(j)
        /\ jobs[j].cached = "false" /\ jobs[k].cached = "false"
        /\ jobs[j].nativeReturned /\ jobs[k].nativeReturned
        /\ jobs[j].saved = "stored" /\ jobs[k].saved = "key exists"
        /\ jobs[j].pc = "done" /\ jobs[k].pc = "done"
        /\ jobs[l].cached = "true"
        /\ jobs[l].pc = "done"

----------------------------------------------------------------------------
\* Properties of the build numbers git-tag produces for two tags
\* (SpecEncoding)

\* both versions encoded, minor and patch of both at most 99
ProducedWithinCeiling ==
    /\ compared # NoObj /\ compared.buildNumbers # <<>>
    /\ compared.a.minor <= 99 /\ compared.a.patch <= 99
    /\ compared.b.minor <= 99 /\ compared.b.patch <= 99

\* C29: with the git-tag strategy build numbers follow tag order: when the
\* latest tag advances from version a to a strictly greater version b
\* (minor and patch of both at most 99), the build number produced for b
\* is strictly greater than the one produced for a, and two different tag
\* versions never produce the same build number.
C29_BuildNumbersFollowTags ==
    ProducedWithinCeiling =>
      /\ VersionBefore(compared.a, compared.b)
           => compared.produced[1] < compared.produced[2]
      /\ (compared.a # compared.b)
           => compared.produced[1] # compared.produced[2]

\* the same for two tags that are both 1.0.0 or later
BuildNumbersFollowTagsFromOne ==
    (ProducedWithinCeiling /\ compared.a.major >= 1
       /\ compared.b.major >= 1) => C29_BuildNumbersFollowTags

============================================================================
